---- MODULE Spec2Model ----
(***************************************************************************)
(* TieredMemory (src/core/Tiered_memory.py): the three-layer event memory  *)
(* of the desktop pet.  One store instance; every public or private method *)
(* that changes the store is one action.                                   *)
(*                                                                         *)
(* Numbers.  Scores are Python floats.  The model keeps them as integers   *)
(* in units of 1/8000 (FP(1000) is 1.0).  The clock is read only at whole  *)
(* multiples of one hour, so every decay factor 0.5 ** (age / 3600) is a   *)
(* power of two and every score the store keeps (> 0.1) is a whole number  *)
(* of units: the arithmetic below is exact where the code's is.            *)
(*                                                                         *)
(* Clock.  clock is what time.time() returns; it moves only between calls *)
(* (Tick), so an add and the sweep it runs inline read the same instant.   *)
(*                                                                         *)
(* Identity.  Python dicts are objects; the model gives every event the    *)
(* serial number of the add call that created it (field id), which no      *)
(* operation of the store reads.                                           *)
(*                                                                         *)
(* Configuration and threads.  capacity holds self.recent_max and          *)
(* self.important_max as the constructor was given them.  frames holds,    *)
(* for a thread that is part-way through a call, the locals of that call;  *)
(* it is empty in the runs where every call runs to its end in one step.   *)
(* In the runs of threads (SpecThreads, SpecWriters) the class takes no    *)
(* lock, and a step is one read or write of what the threads share.        *)
(*                                                                         *)
(* AgentBridge (src/core/agent_bridge.py).  _q is the bounded queue of     *)
(* the bridge and _stop_event its stop flag; sent and handled record every *)
(* item offered to the queue and every item the worker took.  The threads  *)
(* of the bridge (the UI thread in handle or stop, the worker) are in      *)
(* frames; each queue operation is one step, as queue.Queue makes it.      *)
(***************************************************************************)
EXTENDS Integers, Sequences, FiniteSets, TLC

VARIABLES recent, important, archive, _event_counter, clock, nextId, ingested, last, capacity, frames, _q, _stop_event, sent, handled

\* the state of the AgentBridge: its queue and stop flag, and every item that was
\* offered to the queue and every item the worker took from it, in order
bridge_vars == <<_q, _stop_event, sent, handled>>

vars == <<recent, important, archive, _event_counter, clock, nextId, ingested, last,
          capacity, frames, bridge_vars>>

\* ---------------------------------------------------------------- bounds

\* TieredMemory(recent_max, important_max): the instance under study.
recent_max == 2
important_max == 2
\* add calls explored per run
MaxAdds == 3
\* _trim_important is also run on lists up to TrimOver entries over capacity
TrimOver == 2
\* a run may start from a store that is PreloadGap adds short of a sweep
PreloadGap == 3

\* ------------------------------------------------------------- constants

SweepInterval == 100
one_hour == 3600
one_day == 86400

FP(thousandths) == thousandths * 8

importance_threshold == FP(400)
residual_floor == FP(100)

\* The instants at which time.time() is read in a run (seconds).
ClockReadings == {0, 3 * one_hour, 24 * one_hour, 25 * one_hour, 50 * one_hour}

\* --------------------------------------------------------------- strings

Min(a, b) == IF a < b THEN a ELSE b

Max(a, b) == IF a > b THEN a ELSE b

CharAt(s, i) == SubSeq(s, i, i)

\* Python: w in s
Contains(s, w) ==
    \/ Len(w) = 0
    \/ \E i \in 1..(Len(s) - Len(w) + 1) : SubSeq(s, i, i + Len(w) - 1) = w

\* Python: s[:n]
Prefix(s, n) == SubSeq(s, 1, Min(n, Len(s)))

\* A string of the model is made of the characters a string literal can hold:
\* U+0000 to U+00FF and, of the rest of the basic plane, those whose code ends
\* in 80 to FF.  The tables below list, among these, the characters Python
\* (Unicode 14) answers for; the first of UpperChars, LowerChars and DigitChars
\* are the ASCII ones.

Chars(s) == {CharAt(s, i) : i \in 1..Len(s)}

\* stands for a small letter that no string of the model can hold
NoLetter == "�"

\* the characters c with c.isupper()
UpperChars ==
       "ABCDEFGHIJKLMNOPQRSTUVWXYZ"
    \o "ÀÁÂÃÄÅÆÇÈÉÊËÌÍÎÏÐÑÒÓÔÕÖØÙÚÛÜÝÞƁƂƄƆƇƉƊƋƎƏƐƑƓƔƖƗƘƜƝƟƠƢƤƦƧƩƬƮƯƱƲƳƵƷ"
    \o "ƸƼǄǇǊǍǏǑǓǕǗǙǛǞǠǢǤǦǨǪǬǮǱǴǶǷǸǺǼǾΆΈΉΊΌΎΏΑΒΓΔΕΖΗΘΙΚΛΜΝΞΟΠΡΣΤΥΦΧΨΩΪΫϏ"
    \o "ϒϓϔϘϚϜϞϠϢϤϦϨϪϬϮϴϷϹϺϽϾϿҀҊҌҎҐҒҔҖҘҚҜҞҠҢҤҦҨҪҬҮҰҲҴҶҸҺҼҾӀӁӃӅӇӉӋӍӐӒӔӖӘӚ"
    \o "ӜӞӠӢӤӦӨӪӬӮӰӲӴӶӸӺӼӾႠႡႢႣႤႥႦႧႨႩႪႫႬႭႮႯႰႱႲႳႴႵႶႷႸႹႺႻႼႽႾႿჀჁჂჃჄჅჇჍᎠᎡᎢᎣᎤᎥ"
    \o "ᎦᎧᎨᎩᎪᎫᎬᎭᎮᎯᎰᎱᎲᎳᎴᎵᎶᎷᎸᎹᎺᎻᎼᎽᎾᎿᏀᏁᏂᏃᏄᏅᏆᏇᏈᏉᏊᏋᏌᏍᏎᏏᏐᏑᏒᏓᏔᏕᏖᏗᏘᏙᏚᏛᏜᏝᏞᏟᏠᏡᏢᏣᏤᏥ"
    \o "ᏦᏧᏨᏩᏪᏫᏬᏭᏮᏯᏰᏱᏲᏳᏴᏵᲐᲑᲒᲓᲔᲕᲖᲗᲘᲙᲚᲛᲜᲝᲞᲟᲠᲡᲢᲣᲤᲥᲦᲧᲨᲩᲪᲫᲬᲭᲮᲯᲰᲱᲲᲳᲴᲵᲶᲷᲸᲹᲺᲽᲾᲿẀẂ"
    \o "ẄẆẈẊẌẎẐẒẔẞẠẢẤẦẨẪẬẮẰẲẴẶẸẺẼẾỀỂỄỆỈỊỌỎỐỒỔỖỘỚỜỞỠỢỤỦỨỪỬỮỰỲỴỶỸỺỼỾᾸᾹᾺΆῈΈ"
    \o "ῊΉῘῙῚΊῨῩῪΎῬῸΌῺΏↃⒶⒷⒸⒹⒺⒻⒼⒽⒾⒿⓀⓁⓂⓃⓄⓅⓆⓇⓈⓉⓊⓋⓌⓍⓎⓏⲀⲂⲄⲆⲈⲊⲌⲎⲐⲒⲔⲖⲘⲚⲜⲞⲠⲢⲤⲦⲨⲪ"
    \o "ⲬⲮⲰⲲⲴⲶⲸⲺⲼⲾⳀⳂⳄⳆⳈⳊⳌⳎⳐⳒⳔⳖⳘⳚⳜⳞⳠⳢⳫⳭⳲꚀꚂꚄꚆꚈꚊꚌꚎꚐꚒꚔꚖꚘꚚꞀꞂꞄꞆꞋꞍꞐꞒꞖꞘꞚꞜꞞꞠꞢꞤꞦꞨꞪ"
    \o "ꞫꞬꞭꞮꞰꞱꞲꞳꞴꞶꞸꞺꞼꞾꟀꟂꟄꟅꟆꟇꟉꟐꟖꟘꟵ"

\* c.lower() of the character at the same place of UpperChars
LowerChars ==
       "abcdefghijklmnopqrstuvwxyz"
    \o "àáâãäåæçèéêëìíîïðñòóôõöøùúûüýþ�ƃƅ�ƈ��ƌǝ��ƒ����ƙ���ơƣƥʀƨʃƭʈưʊʋƴƶʒ"
    \o "ƹƽǆǉǌǎǐǒǔǖǘǚǜǟǡǣǥǧǩǫǭǯǳǵƕƿǹǻǽǿάέήίόύώαβγδεζηθικλμνξοπρστυφχψωϊϋϗ"
    \o "ϒϓϔϙϛϝϟϡϣϥϧϩϫϭϯθϸϲϻ���ҁҋҍҏґғҕҗҙқҝҟҡңҥҧҩҫҭүұҳҵҷҹһҽҿӏӂӄӆӈӊӌӎӑӓӕӗәӛ"
    \o "ӝӟӡӣӥӧөӫӭӯӱӳӵӷӹӻӽӿ����������������������������������������������"
    \o "����������ꮀꮁꮂꮃꮄꮅꮆꮇꮈꮉꮊꮋꮌꮍꮎꮏꮐꮑꮒꮓꮔꮕꮖꮗꮘꮙꮚꮛꮜꮝꮞꮟꮠꮡꮢꮣꮤꮥꮦꮧꮨꮩꮪꮫꮬꮭꮮꮯꮰꮱꮲꮳꮴꮵ"
    \o "ꮶꮷꮸꮹꮺꮻꮼꮽꮾꮿᏸᏹᏺᏻᏼᏽაბგდევზთიკლმნოპჟრსტუფქღყშჩცძწჭხჯჰჱჲჳჴჵჶჷჸჹჺჽჾჿẁẃ"
    \o "ẅẇẉẋẍẏẑẓẕßạảấầẩẫậắằẳẵặẹẻẽếềểễệỉịọỏốồổỗộớờởỡợụủứừửữựỳỵỷỹỻỽỿᾰᾱ����"
    \o "��ῐῑ��ῠῡ��ῥ����ↄⓐⓑⓒⓓⓔⓕⓖⓗⓘⓙⓚⓛⓜⓝⓞⓟⓠⓡⓢⓣⓤⓥⓦⓧⓨⓩⲁⲃⲅⲇⲉⲋⲍⲏⲑⲓⲕⲗⲙⲛⲝⲟⲡⲣⲥⲧⲩⲫ"
    \o "ⲭⲯⲱⲳⲵⲷⲹⲻⲽⲿⳁⳃⳅⳇⳉⳋⳍⳏⳑⳓⳕⳗⳙⳛⳝⳟⳡⳣⳬⳮⳳꚁꚃꚅꚇꚉꚋꚍꚏꚑꚓꚕꚗꚙꚛꞁꞃꞅꞇꞌ�ꞑꞓꞗꞙꞛꞝꞟꞡꞣꞥꞧꞩ�"
    \o "����ʞʇʝ�ꞵꞷꞹꞻꞽꞿꟁꟃꞔʂᶎꟈꟊꟑꟗꟙꟶ"

\* the other characters that c.lower() changes (the titlecase letters)
TitleChars == "ǅǈǋǲᾈᾉᾊᾋᾌᾍᾎᾏᾘᾙᾚᾛᾜᾝᾞᾟᾨᾩᾪᾫᾬᾭᾮᾯᾼῌῼ"

\* c.lower() of the character at the same place of TitleChars
TitleLowerChars == "ǆǉǌǳᾀᾁᾂᾃᾄᾅᾆᾇᾐᾑᾒᾓᾔᾕᾖᾗᾠᾡᾢᾣᾤᾥᾦᾧᾳῃῳ"

\* the characters c with c.isdigit()
DigitChars ==
       "0123456789"
    \o "²³¹۰۱۲۳۴۵۶۷۸۹߀߁߂߃߄߅߆߇߈߉০১২৩৪৫৬৭৮৯૦૧૨૩૪૫૬૭૮૯௦௧௨௩௪௫௬௭௮௯೦೧೨೩೪೫೬೭೮೯෦"
    \o "෧෨෩෪෫෬෭෮෯໐໑໒໓໔໕໖໗໘໙႐႑႒႓႔႕႖႗႘႙០១២៣៤៥៦៧៨៩᧐᧑᧒᧓᧔᧕᧖᧗᧘᧙᧚᪀᪁᪂᪃᪄᪅᪆᪇᪈᪉᪐᪑᪒᪓"
    \o "᪔᪕᪖᪗᪘᪙᮰᮱᮲᮳᮴᮵᮶᮷᮸᮹₀₁₂₃₄₅₆₇₈₉⒈⒉⒊⒋⒌⒍⒎⒏⒐⓪⓵⓶⓷⓸⓹⓺⓻⓼⓽⓿➀➁➂➃➄➅➆➇➈➊➋➌➍➎➏➐➑➒"
    \o "꣐꣑꣒꣓꣔꣕꣖꣗꣘꣙꧐꧑꧒꧓꧔꧕꧖꧗꧘꧙꧰꧱꧲꧳꧴꧵꧶꧷꧸꧹꯰꯱꯲꯳꯴꯵꯶꯷꯸꯹"

\* the characters str.split() separates on (c.isspace())
SpaceChars == "\t\n\f\r   "

\* the characters str.lower() passes over when it looks for the letters next to
\* a capital sigma (Case_Ignorable)
CaseIgnorableChars ==
       "'.:^¨­¯´·¸ʰʱʲʳʴʵʶʷʸʹʺʻʼʽʾʿˀˁ˂˃˄˅ˆˇˈˉˊˋˌˍˎˏːˑ˒˓˔˕˖˗˘˙˚˛˜˝˞˟ˠˡˢˣˤ˥"
    \o "˦˧˨˩˪˫ˬ˭ˮ˯˰˱˲˳˴˵˶˷˸˹˺˻˼˽˾˿΄΅·҃҄҅҆҇҈҉֑֖֛֢֣֤֥֦֧֪֚֒֓֔֕֗֘֙֜֝֞֟֠֡֨֩֫֬"
    \o "ְֱֲֳִֵֶַָׇֹֺֻּֽֿׁׂׅ֭֮֯ׄ״ۖۗۘۙۚۛۜ۝ۣ۟۠ۡۢۤۥۦ۪ۭۧۨ۫۬ަާިީުޫެޭޮޯް߫߬߭߮߯߰߱"
    \o "߲߳ߴߵߺ߽࢈࢐࢑࢙࢚࢛࢘࢜࢝࢞࢟ࣉ࣏࣐࣑࣒࣓࣊࣋࣌࣍࣎ࣔࣕࣖࣗࣘࣙࣚࣛࣜࣝࣞࣟ࣠࣡࣢ࣰࣱࣲࣣࣦࣩ࣭࣮࣯ࣶࣤࣥࣧࣨ࣪࣫࣬ࣳࣴࣵࣷ"
    \o "ࣹࣺࣸࣻࣼࣽࣾࣿঁ়ুূৃৄ্ৢৣ৾ઁં઼ુૂૃૄૅેૈ્ૢૣૺૻૼ૽૾૿ஂீ்ಁ಼ಿೆೌ್ೢೣඁ්ිීුූັິີຶື຺ຸູົຼ"
    \o "ໆ່້໊໋໌ໍ྄ཱྀྀྂྃ྆྇ྍྎྏྐྑྒྒྷྔྕྖྗྙྚྛྜྜྷྞྟྠྡྡྷྣྤྥྦྦྷྨྩྪྫྫྷྭྮྯྰྱྲླྴྵྶྷྸྐྵྺྻྼ࿆ႂႅ"
    \o "ႆႍႝჼ឴឵ិីឹឺុូួំ៉៊់៌៍៎៏័៑្៓ៗ៝ᢅᢆᢩᪧ᪵᪶᪷᪸᪹᪺᪽᪰᪱᪲᪳᪴᪻᪼᪾ᪿᫀ᫃᫄᫊᫁᫂᫅᫆᫇᫈᫉᫋ᫌᫍᫎᮀᮁ"
    \o "ᮢᮣᮤᮥᮨᮩ᮫ᮬᮭ᯦ᯨᯩᯭᯯᯰᯱ᳔᳢᳣᳤᳥᳦᳧᳨᳕᳖᳗᳘᳙᳜᳝᳞᳟᳭᳐᳑᳒᳚᳛᳠᳴᳸᳹ᶛᶜᶝᶞᶟᶠᶡᶢᶣᶤᶥᶦᶧᶨᶩᶪᶫᶬᶭᶮᶯ"
    \o "ᶰᶱᶲᶳᶴᶵᶶᶷᶸᶹᶺᶻᶼᶽᶾᶿ᷐᷎᷂᷊᷏᷀᷁᷃᷄᷅᷆᷇᷈᷉᷋᷌᷑᷒ᷓᷔᷕᷖᷗᷘᷙᷚᷛᷜᷝᷞᷟᷠᷡᷢᷣᷤᷥᷦᷧᷨᷩᷪᷫᷬᷭᷮᷯ᷍"
    \o "᷺᷹᷽᷿᷷᷸ᷰᷱᷲᷳᷴ᷵᷻᷾᷶᷼᾽᾿῀῁῍῎῏῝῞῟῭΅`´῾ₐₑₒₓₔₕₖₗₘₙₚₛₜ⃒⃓⃘⃙⃚⃐⃑⃔⃕⃖⃗⃛⃜⃝⃞⃟⃠⃡⃢⃣"
    \o "⃤⃥⃦⃪⃫゙゚⃨⃬⃭⃮⃯⃧⃩⃰⳯⳰⳱ⷠⷡⷢⷣⷤⷥⷦⷧⷨⷩⷪⷫⷬⷭⷮⷯⷰⷱⷲⷳⷴⷵⷶⷷⷸⷹⷺⷻⷼⷽⷾⷿ゛゜ゝゞーヽヾꓸꓹꓺꓻꓼꓽꚜ"
    \o "ꚝꚞꚟ꛰꛱ꞈ꞉꞊ꟲꟳꟴꟸꟹ꣄ꣅ꣠꣡꣢꣣꣤꣥꣦꣧꣨꣩꣪꣫꣬꣭꣮꣯꣰꣱ꣿꦀꦁꦂ꦳ꦶꦷꦸꦹꦼꦽꧏꧥꧦꪴꪰꪲꪳꪷꪸꪾ꪿꫁ꫝꫬꫭꫳꫴ꫶ꯥꯨ"
    \o "꯭﮲﮳﮴﮵﮶﮷﮸﮹﮺﮻﮼﮽﮾﮿﯀﯁﯂﻿ﾞﾟ￣￹￺￻"

\* the other characters that are letters with a case (Cased)
CasedChars ==
       "ABCDEFGHIJKLMNOPQRSTUVWXYZabcdefghijklmnopqrstuvwxyzªµºÀÁÂÃÄÅÆÇÈ"
    \o "ÉÊËÌÍÎÏÐÑÒÓÔÕÖØÙÚÛÜÝÞßàáâãäåæçèéêëìíîïðñòóôõöøùúûüýþÿƀƁƂƃƄƅƆƇƈƉƊ"
    \o "ƋƌƍƎƏƐƑƒƓƔƕƖƗƘƙƚƛƜƝƞƟƠơƢƣƤƥƦƧƨƩƪƫƬƭƮƯưƱƲƳƴƵƶƷƸƹƺƼƽƾƿǄǅǆǇǈǉǊǋǌǍǎǏ"
    \o "ǐǑǒǓǔǕǖǗǘǙǚǛǜǝǞǟǠǡǢǣǤǥǦǧǨǩǪǫǬǭǮǯǰǱǲǳǴǵǶǷǸǹǺǻǼǽǾǿʀʁʂʃʄʅʆʇʈʉʊʋʌʍʎʏ"
    \o "ʐʑʒʓʕʖʗʘʙʚʛʜʝʞʟʠʡʢʣʤʥʦʧʨʩʪʫʬʭʮʯΆΈΉΊΌΎΏΐΑΒΓΔΕΖΗΘΙΚΛΜΝΞΟΠΡΣΤΥΦΧΨΩΪ"
    \o "ΫάέήίΰαβγδεζηθικλμνξοπρςστυφχψωϊϋόύώϏϐϑϒϓϔϕϖϗϘϙϚϛϜϝϞϟϠϡϢϣϤϥϦϧϨϩϪ"
    \o "ϫϬϭϮϯϰϱϲϳϴϵϷϸϹϺϻϼϽϾϿҀҁҊҋҌҍҎҏҐґҒғҔҕҖҗҘҙҚқҜҝҞҟҠҡҢңҤҥҦҧҨҩҪҫҬҭҮүҰұҲҳ"
    \o "ҴҵҶҷҸҹҺһҼҽҾҿӀӁӂӃӄӅӆӇӈӉӊӋӌӍӎӏӐӑӒӓӔӕӖӗӘәӚӛӜӝӞӟӠӡӢӣӤӥӦӧӨөӪӫӬӭӮӯӰӱӲӳ"
    \o "ӴӵӶӷӸӹӺӻӼӽӾӿրցւփքօֆևֈႠႡႢႣႤႥႦႧႨႩႪႫႬႭႮႯႰႱႲႳႴႵႶႷႸႹႺႻႼႽႾႿჀჁჂჃჄჅჇჍაბგ"
    \o "დევზთიკლმნოპჟრსტუფქღყშჩცძწჭხჯჰჱჲჳჴჵჶჷჸჹჺჽჾჿᎠᎡᎢᎣᎤᎥᎦᎧᎨᎩᎪᎫᎬᎭᎮᎯᎰᎱᎲᎳᎴ"
    \o "ᎵᎶᎷᎸᎹᎺᎻᎼᎽᎾᎿᏀᏁᏂᏃᏄᏅᏆᏇᏈᏉᏊᏋᏌᏍᏎᏏᏐᏑᏒᏓᏔᏕᏖᏗᏘᏙᏚᏛᏜᏝᏞᏟᏠᏡᏢᏣᏤᏥᏦᏧᏨᏩᏪᏫᏬᏭᏮᏯᏰᏱᏲᏳᏴ"
    \o "ᏵᏸᏹᏺᏻᏼᏽᲀᲁᲂᲃᲄᲅᲆᲇᲈᲐᲑᲒᲓᲔᲕᲖᲗᲘᲙᲚᲛᲜᲝᲞᲟᲠᲡᲢᲣᲤᲥᲦᲧᲨᲩᲪᲫᲬᲭᲮᲯᲰᲱᲲᲳᲴᲵᲶᲷᲸᲹᲺᲽᲾᲿᶀᶁ"
    \o "ᶂᶃᶄᶅᶆᶇᶈᶉᶊᶋᶌᶍᶎᶏᶐᶑᶒᶓᶔᶕᶖᶗᶘᶙᶚẀẁẂẃẄẅẆẇẈẉẊẋẌẍẎẏẐẑẒẓẔẕẖẗẘẙẚẛẜẝẞẟẠạẢảẤấẦ"
    \o "ầẨẩẪẫẬậẮắẰằẲẳẴẵẶặẸẹẺẻẼẽẾếỀềỂểỄễỆệỈỉỊịỌọỎỏỐốỒồỔổỖỗỘộỚớỜờỞởỠỡỢợỤụỦ"
    \o "ủỨứỪừỬửỮữỰựỲỳỴỵỶỷỸỹỺỻỼỽỾỿᾀᾁᾂᾃᾄᾅᾆᾇᾈᾉᾊᾋᾌᾍᾎᾏᾐᾑᾒᾓᾔᾕᾖᾗᾘᾙᾚᾛᾜᾝᾞᾟᾠᾡᾢᾣᾤᾥᾦ"
    \o "ᾧᾨᾩᾪᾫᾬᾭᾮᾯᾰᾱᾲᾳᾴᾶᾷᾸᾹᾺΆᾼιῂῃῄῆῇῈΈῊΉῌῐῑῒΐῖῗῘῙῚΊῠῡῢΰῤῥῦῧῨῩῪΎῬῲῳῴῶῷῸΌῺΏ"
    \o "ῼↃↄⒶⒷⒸⒹⒺⒻⒼⒽⒾⒿⓀⓁⓂⓃⓄⓅⓆⓇⓈⓉⓊⓋⓌⓍⓎⓏⓐⓑⓒⓓⓔⓕⓖⓗⓘⓙⓚⓛⓜⓝⓞⓟⓠⓡⓢⓣⓤⓥⓦⓧⓨⓩⲀⲁⲂⲃⲄⲅⲆⲇⲈ"
    \o "ⲉⲊⲋⲌⲍⲎⲏⲐⲑⲒⲓⲔⲕⲖⲗⲘⲙⲚⲛⲜⲝⲞⲟⲠⲡⲢⲣⲤⲥⲦⲧⲨⲩⲪⲫⲬⲭⲮⲯⲰⲱⲲⲳⲴⲵⲶⲷⲸⲹⲺⲻⲼⲽⲾⲿⳀⳁⳂⳃⳄⳅⳆⳇⳈ"
    \o "ⳉⳊⳋⳌⳍⳎⳏⳐⳑⳒⳓⳔⳕⳖⳗⳘⳙⳚⳛⳜⳝⳞⳟⳠⳡⳢⳣⳤⳫⳬⳭⳮⳲⳳꚀꚁꚂꚃꚄꚅꚆꚇꚈꚉꚊꚋꚌꚍꚎꚏꚐꚑꚒꚓꚔꚕꚖꚗꚘꚙꚚꚛꞀꞁ"
    \o "ꞂꞃꞄꞅꞆꞇꞋꞌꞍꞎꞐꞑꞒꞓꞔꞕꞖꞗꞘꞙꞚꞛꞜꞝꞞꞟꞠꞡꞢꞣꞤꞥꞦꞧꞨꞩꞪꞫꞬꞭꞮꞯꞰꞱꞲꞳꞴꞵꞶꞷꞸꞹꞺꞻꞼꞽꞾꞿꟀꟁꟂꟃꟄꟅ"
    \o "ꟆꟇꟈꟉꟊꟐꟑꟓꟕꟖꟗꟘꟙꟵꟶꟺꮀꮁꮂꮃꮄꮅꮆꮇꮈꮉꮊꮋꮌꮍꮎꮏꮐꮑꮒꮓꮔꮕꮖꮗꮘꮙꮚꮛꮜꮝꮞꮟꮠꮡꮢꮣꮤꮥꮦꮧꮨꮩꮪꮫꮬꮭꮮꮯ"
    \o "ꮰꮱꮲꮳꮴꮵꮶꮷꮸꮹꮺꮻꮼꮽꮾꮿ"

UpperSet == Chars(UpperChars)

DigitSet == Chars(DigitChars)

SpaceSet == Chars(SpaceChars)

CaseIgnorableSet == Chars(CaseIgnorableChars)

CasedSet == Chars(CasedChars)

CaseFrom == UpperChars \o TitleChars

CaseTo == LowerChars \o TitleLowerChars

CaseFromSet == Chars(CaseFrom)

\* Python: c.isupper() of one character
IsUpper(c) == c \in UpperSet

\* Python: c.isdigit() of one character
IsDigit(c) == c \in DigitSet

\* Python: c.isspace(), the separators of str.split()
IsSpace(c) == c \in SpaceSet

\* Python: c.lower() of one character
LowerChar(c) ==
    IF c \in CaseFromSet
    THEN CharAt(CaseTo, CHOOSE i \in 1..Len(CaseFrom) : CharAt(CaseFrom, i) = c)
    ELSE c

\* the capital sigma at place i of s ends a word: the nearest character before
\* it that is not passed over is a cased letter, the nearest after it is not
FinalSigma(s, i) ==
    /\ \E j \in 1..(i - 1) :
           /\ CharAt(s, j) \in CasedSet
           /\ \A k \in (j + 1)..(i - 1) : CharAt(s, k) \in CaseIgnorableSet
    /\ ~\E j \in (i + 1)..Len(s) :
           /\ CharAt(s, j) \in CasedSet
           /\ \A k \in (i + 1)..(j - 1) : CharAt(s, k) \in CaseIgnorableSet

\* the character s.lower() has for place i of s
LowerAt(s, i) ==
    IF CharAt(s, i) = "Σ" /\ FinalSigma(s, i) THEN "ς" ELSE LowerChar(CharAt(s, i))

RECURSIVE LowerFrom(_, _)
LowerFrom(s, i) == IF i > Len(s) THEN "" ELSE LowerAt(s, i) \o LowerFrom(s, i + 1)

\* Python: s.lower()
Lower(s) == LowerFrom(s, 1)

RECURSIVE SplitFrom(_, _, _)
\* the words of s from position i on, cur being the word read so far
SplitFrom(s, i, cur) ==
    IF i > Len(s)
    THEN IF Len(cur) = 0 THEN <<>> ELSE <<cur>>
    ELSE IF IsSpace(CharAt(s, i))
         THEN (IF Len(cur) = 0 THEN <<>> ELSE <<cur>>) \o SplitFrom(s, i + 1, "")
         ELSE SplitFrom(s, i + 1, cur \o CharAt(s, i))

\* Python: s.split()
Split(s) == SplitFrom(s, 1, "")

\* Python: s[start:]
SliceFrom(s, start) ==
    LET b == IF start < 0 THEN Max(Len(s) + start, 0) ELSE Min(start, Len(s))
    IN  SubSeq(s, b + 1, Len(s))

\* Python: s[:n]
SliceTo(s, n) == SubSeq(s, 1, IF n < 0 THEN Max(Len(s) + n, 0) ELSE Min(n, Len(s)))

RECURSIVE ToStr(_)
\* Python: str(n) of an int
ToStr(n) ==
    IF n < 0 THEN "-" \o ToStr(0 - n)
    ELSE IF n < 10 THEN CharAt(DigitChars, n + 1)
         ELSE ToStr(n \div 10) \o CharAt(DigitChars, (n % 10) + 1)

\* Python: data.get(key, default)
Get(data, key, default) == IF key \in DOMAIN data THEN data[key] ELSE default

\* ------------------------------------------------------ scoring (102-143)

\* a table that rates chat as low as app activity
type_scores_ChatLow ==
    [chat |-> FP(300), vision |-> FP(600), app_activity |-> FP(300), location |-> FP(500),
     inventory |-> FP(400), skill |-> FP(800), preference |-> FP(900)]

type_scores ==
    [chat |-> FP(900), vision |-> FP(600), app_activity |-> FP(300), location |-> FP(500),
     inventory |-> FP(400), skill |-> FP(800), preference |-> FP(900)]

emphatic_words ==
    <<"remember", "important", "forever", "always", "never",
      "hate", "love", "favorite", "rule", "must">>

vision_words == <<"item", "change", "new", "danger", "threat">>

AnyWordIn(words, text) == \E i \in 1..Len(words) : Contains(text, words[i])

\* a chat is rated by its kind alone
ChatBoost_Ignored(data) == 0

\* lines 121-135: the boosts of a chat whose lowered text is text
TextBoost(text) ==
    LET words == Split(text)
    IN  (IF AnyWordIn(emphatic_words, text) THEN FP(200) ELSE 0)
      + (IF \E i \in 1..Len(words) : Len(words[i]) > 2 /\ IsUpper(CharAt(words[i], 1))
         THEN FP(150) ELSE 0)
      + (IF \E i \in 1..Len(text) : IsDigit(CharAt(text, i)) THEN FP(100) ELSE 0)
      + (IF Contains(text, "?") THEN FP(150) ELSE 0)

ChatBoost(data) == TextBoost(Lower(Get(data, "text", "")))

VisionBoost(data) ==
    IF AnyWordIn(vision_words, Lower(Get(data, "summary", ""))) THEN FP(200) ELSE 0

\* a kind the table does not hold is rated like a location
_score_importance_UnknownHalf(event_type, data) ==
    LET base == IF event_type \in DOMAIN type_scores THEN type_scores[event_type] ELSE FP(500)
        boost == IF event_type = "chat" THEN ChatBoost(data)
                 ELSE IF event_type = "vision" THEN VisionBoost(data)
                 ELSE 0
    IN  Min(base + boost, FP(1000))

_score_importance(event_type, data) ==
    LET base == IF event_type \in DOMAIN type_scores THEN type_scores[event_type] ELSE FP(400)
        boost == IF event_type = "chat" THEN ChatBoost(data)
                 ELSE IF event_type = "vision" THEN VisionBoost(data)
                 ELSE 0
    IN  Min(base + boost, FP(1000))

\* ------------------------------------------------------------ the layers

\* a bounded queue that refuses the new event when it is full
deque_append_KeepOldest(dq, event) ==
    IF Len(dq) >= recent_max THEN dq ELSE Append(dq, event)

\* deque(maxlen=recent_max).append(event)
deque_append(dq, event) ==
    LET all == Append(dq, event)
    IN  IF Len(all) > recent_max THEN SubSeq(all, Len(all) - recent_max + 1, Len(all)) ELSE all

\* a sort that puts an entry before its equals
InsertDesc_BeforeEquals(sorted, x) ==
    LET k == Cardinality({i \in 1..Len(sorted) : sorted[i].importance > x.importance})
    IN  SubSeq(sorted, 1, k) \o <<x>> \o SubSeq(sorted, k + 1, Len(sorted))

\* the place of x in a list already sorted by descending importance: after
\* every entry that is at least as important (list.sort is stable)
InsertDesc(sorted, x) ==
    LET k == Cardinality({i \in 1..Len(sorted) : sorted[i].importance >= x.importance})
    IN  SubSeq(sorted, 1, k) \o <<x>> \o SubSeq(sorted, k + 1, Len(sorted))

RECURSIVE SortDescFrom(_, _, _)
SortDescFrom(list, i, acc) ==
    IF i > Len(list) THEN acc ELSE SortDescFrom(list, i + 1, InsertDesc(acc, list[i]))

\* sorted(list, key=importance, reverse=True)
SortDesc(list) == SortDescFrom(list, 1, <<>>)

\* a trim that never removes anything
_trim_important_NoTrim(list) == list

\* a trim that, at the limit or over it, drops the one entry of lowest importance
_trim_important_DropsLowest(list) ==
    IF Len(list) >= important_max
    THEN SubSeq(SortDesc(list), 1, Len(list) - 1)
    ELSE list

_trim_important(list) ==
    IF Len(list) > important_max
    THEN SubSeq(SortDesc(list), 1, important_max)
    ELSE list

\* datetime.fromtimestamp(ts).strftime("%Y-%m-%d"), local zone UTC, for the
\* instants of January 1970 the model reads
TwoDigits(n) == CharAt(DigitChars, (n \div 10) + 1) \o CharAt(DigitChars, (n % 10) + 1)

date_key(ts) == "1970-01-" \o TwoDigits((ts \div one_day) + 1)

\* a day's bucket that starts with a count of one
NewBucket_CountsOne(ts) == [summary |-> "", event_count |-> 1, timestamp |-> ts, events |-> <<>>]

\* self.archive[date_key] = {...}
NewBucket(ts) == [summary |-> "", event_count |-> 0, timestamp |-> ts, events |-> <<>>]

\* every archived chat adds its line to the summary, seen before or not
_archive_event_AlwaysAppends(arch, event) ==
    LET key == date_key(event.timestamp)
        bucket == IF key \in DOMAIN arch THEN arch[key] ELSE NewBucket(event.timestamp)
        who == Get(event.data, "who", "")
        text == Prefix(Get(event.data, "text", ""), 50)
        summary == IF event.type = "chat"
                   THEN bucket.summary \o who \o ": " \o text \o "; "
                   ELSE bucket.summary
        stored == [summary |-> summary, event_count |-> bucket.event_count + 1,
                   timestamp |-> bucket.timestamp, events |-> Append(bucket.events, event)]
    IN  [k \in DOMAIN arch \cup {key} |-> IF k = key THEN stored ELSE arch[k]]

\* the bucket takes the timestamp of the event archived last
_archive_event_LatestTimestamp(arch, event) ==
    LET key == date_key(event.timestamp)
        bucket == IF key \in DOMAIN arch THEN arch[key] ELSE NewBucket(event.timestamp)
        who == Get(event.data, "who", "")
        text == Prefix(Get(event.data, "text", ""), 50)
        summary_line == who \o ": " \o text
        summary == IF event.type = "chat" /\ ~Contains(bucket.summary, summary_line)
                   THEN bucket.summary \o summary_line \o "; "
                   ELSE bucket.summary
        stored == [summary |-> summary, event_count |-> bucket.event_count + 1,
                   timestamp |-> event.timestamp, events |-> Append(bucket.events, event)]
    IN  [k \in DOMAIN arch \cup {key} |-> IF k = key THEN stored ELSE arch[k]]

_archive_event(arch, event) ==
    LET key == date_key(event.timestamp)
        bucket == IF key \in DOMAIN arch THEN arch[key] ELSE NewBucket(event.timestamp)
        who == Get(event.data, "who", "")
        text == Prefix(Get(event.data, "text", ""), 50)
        summary_line == who \o ": " \o text
        summary == IF event.type = "chat" /\ ~Contains(bucket.summary, summary_line)
                   THEN bucket.summary \o summary_line \o "; "
                   ELSE bucket.summary
        stored == [summary |-> summary, event_count |-> bucket.event_count + 1,
                   timestamp |-> bucket.timestamp, events |-> Append(bucket.events, event)]
    IN  [k \in DOMAIN arch \cup {key} |-> IF k = key THEN stored ELSE arch[k]]

RECURSIVE Halve(_, _)
\* x * 0.5 ** n for n >= 0, one halving at a time (a score below one unit is 0:
\* it is far below every threshold it is compared with)
Halve(x, n) == IF n = 0 \/ x = 0 THEN x ELSE Halve(x \div 2, n - 1)

RECURSIVE Double(_, _)
\* x * 0.5 ** (-n) for n >= 0
Double(x, n) == IF n = 0 THEN x ELSE Double(x * 2, n - 1)

\* event["importance"] * 0.5 ** (age_seconds / one_hour)
decayed_score(importance, age_seconds) ==
    IF age_seconds >= 0
    THEN Halve(importance, age_seconds \div one_hour)
    ELSE Double(importance, (0 - age_seconds) \div one_hour)

\* an entry is kept at the floor too
KeepEntry_AtFloor(event, now) ==
    decayed_score(event.importance, now - event.timestamp) >= residual_floor

\* the sweep tests the importance as stored, not as decayed
KeepEntry_StoredScore(event, now) == event.importance > residual_floor

\* if decayed_score > 0.1
KeepEntry(event, now) ==
    decayed_score(event.importance, now - event.timestamp) > residual_floor

\* an entry exactly one day old is archived too
ArchiveEntry_FromOneDay(event, now) ==
    /\ ~KeepEntry(event, now)
    /\ now - event.timestamp >= one_day

\* whatever the sweep does not keep is archived, at any age
ArchiveEntry_AnyAge(event, now) == ~KeepEntry(event, now)

\* elif age_seconds > one_day
ArchiveEntry(event, now) ==
    /\ ~KeepEntry(event, now)
    /\ now - event.timestamp > one_day

\* the decayed score is computed and never stored
Decayed_NotStored(event, now) == event

\* event["importance"] = decayed_score
Decayed(event, now) ==
    [event EXCEPT !.importance = decayed_score(event.importance, now - event.timestamp)]

RECURSIVE SweepFrom(_, _, _, _, _)
\* the loop of _decay_and_archive from entry i on
SweepFrom(list, i, now, decayed, arch) ==
    IF i > Len(list) THEN [important |-> decayed, archive |-> arch]
    ELSE LET event == list[i]
         IN  IF KeepEntry(event, now)
             THEN SweepFrom(list, i + 1, now, Append(decayed, Decayed(event, now)), arch)
             ELSE IF ArchiveEntry(event, now)
                  THEN SweepFrom(list, i + 1, now, decayed, _archive_event(arch, event))
                  ELSE SweepFrom(list, i + 1, now, decayed, arch)

\* a sweep that archives and never replaces self.important
_decay_and_archive_KeepsList(list, arch, now) ==
    [important |-> list, archive |-> SweepFrom(list, 1, now, <<>>, arch).archive]

_decay_and_archive(list, arch, now) == SweepFrom(list, 1, now, <<>>, arch)

\* ---------------------------------------------------------------- inputs

PreloadData == [app |-> "code", category |-> "dev", surprised |-> FALSE, curious |-> FALSE]

Inputs ==
    { <<"chat", [text |-> "ok", who |-> "user"]>>,
      <<"skill", [name |-> "dig"]>>,
      <<"inventory", [item |-> "ore"]>> }

Preloads == {0, SweepInterval - PreloadGap}

PreloadEvent(i) == [data |-> PreloadData, timestamp |-> 0, type |-> "app_activity", id |-> i]

\* fewer than MaxAdds add calls have been made in this run
AddBudgetLeft == \E n \in Preloads : nextId - n \in 1..MaxAdds

\* ----------------------------------------------------------------- state

\* the call that ran last: its name and, for add, the event's serial number, its
\* score and the parts of the handler that ran, in order
Call(op) == [id |-> 0, op |-> op, score |-> 0, steps |-> <<>>]

NoCall == Call("none")

\* no call is part-way through: every call of the runs below is made by one
\* thread and runs to its end before the next
NoThreads == <<>>

\* no bridge runs beside the store
NoBridge ==
    /\ _q = <<>>
    /\ _stop_event = FALSE
    /\ sent = <<>>
    /\ handled = <<>>

Init ==
    \E n \in Preloads :
        /\ ingested = [i \in 1..n |-> PreloadEvent(i)]
        /\ recent = [i \in 1..Min(n, recent_max) |-> PreloadEvent(n - Min(n, recent_max) + i)]
        /\ important = <<>>
        /\ archive = <<>>
        /\ _event_counter = n
        /\ clock = 0
        /\ nextId = n + 1
        /\ last = NoCall
        /\ capacity = [recent_max |-> recent_max, important_max |-> important_max]
        /\ frames = NoThreads
        /\ NoBridge

\* the modulus taken of the counter before its increment
SweepDue_PreIncrement(counter) == (counter - 1) % SweepInterval = 0

\* if self._event_counter % 100 == 0
SweepDue(counter) == counter % SweepInterval = 0

\* promotion at the threshold too
Promoted_AtThreshold(score) == score >= importance_threshold

\* if score > self.importance_threshold
Promoted(score) == score > importance_threshold

\* add(type_str, data)
Add(type_str, data) ==
    LET now == clock
        event == [data |-> data, timestamp |-> now, type |-> type_str, id |-> nextId]
        score == _score_importance(type_str, data)
        scored == [data |-> data, importance |-> score, timestamp |-> now, type |-> type_str,
                   id |-> nextId]
        promoted == IF Promoted(score)
                    THEN _trim_important(Append(important, scored))
                    ELSE important
        counter == _event_counter + 1
        swept == IF SweepDue(counter)
                 THEN _decay_and_archive(promoted, archive, clock)
                 ELSE [important |-> promoted, archive |-> archive]
    IN  /\ AddBudgetLeft
        /\ recent' = deque_append(recent, event)
        /\ important' = swept.important
        /\ archive' = swept.archive
        /\ _event_counter' = counter
        /\ nextId' = nextId + 1
        /\ ingested' = Append(ingested, event)
        /\ last' = [id |-> nextId, op |-> "add", score |-> score,
                    steps |-> <<"append", "score">>
                              \o (IF Promoted(score) THEN <<"promote", "trim">> ELSE <<>>)
                              \o <<"count">>
                              \o (IF SweepDue(counter) THEN <<"sweep">> ELSE <<>>)]
        /\ UNCHANGED <<clock, capacity, frames, bridge_vars>>

AddAny == \E in \in Inputs : Add(in[1], in[2])

\* _decay_and_archive() called on its own
Sweep ==
    LET swept == _decay_and_archive(important, archive, clock)
    IN  /\ important' = swept.important
        /\ archive' = swept.archive
        /\ last' = Call("sweep")
        /\ UNCHANGED <<recent, _event_counter, clock, nextId, ingested, capacity, frames, bridge_vars>>

\* _trim_important() called on its own
Trim ==
    /\ important' = _trim_important(important)
    /\ last' = Call("trim")
    /\ UNCHANGED <<recent, archive, _event_counter, clock, nextId, ingested, capacity, frames, bridge_vars>>

\* a clear that empties the layers and leaves the counter running
Clear_KeepsCounter ==
    /\ recent' = <<>>
    /\ important' = <<>>
    /\ archive' = <<>>
    /\ ingested' = <<>>
    /\ last' = Call("clear")
    /\ UNCHANGED <<_event_counter, clock, nextId, capacity, frames, bridge_vars>>

\* clear()
Clear ==
    /\ recent' = <<>>
    /\ important' = <<>>
    /\ archive' = <<>>
    /\ _event_counter' = 0
    /\ ingested' = <<>>
    /\ last' = Call("clear")
    /\ UNCHANGED <<clock, nextId, capacity, frames, bridge_vars>>

\* time passes between two calls
Tick ==
    /\ \E t \in ClockReadings : t > clock /\ clock' = t
    /\ UNCHANGED <<recent, important, archive, _event_counter, nextId, ingested, last,
                   capacity, frames, bridge_vars>>

Next == AddAny \/ Sweep \/ Trim \/ Clear \/ Tick

Spec == Init /\ [][Next]_vars

\* ------------------------------------------ one add of any kind of event

ScoreKinds ==
    {"chat", "vision", "app_activity", "location", "inventory", "skill", "preference", "weather"}

\* texts in ASCII, and texts with a capital that has a small letter (É), with a
\* capital that has none (ϒ), with a digit that is not ASCII (²) and with a
\* separator that is not ASCII (U+00A0)
ScoreTexts ==
    {"", "ok", "Bob", "hello Bob went", "I LOVE it", "at 7", "why?", "a NEW item",
     "remember my favorite color is blue?", "Élan", "ϒab", "x²", "a ϒbc"}

ScorePayloads ==
    {[text |-> t, who |-> "user"] : t \in ScoreTexts}
        \cup {[summary |-> t] : t \in ScoreTexts}
        \cup {PreloadData}

ScoreInputs == ScoreKinds \X ScorePayloads

InitScore == Init /\ _event_counter = 0

\* the first add on a new store
AddFirst == \E in \in ScoreInputs : nextId = 1 /\ Add(in[1], in[2])

NextScore == AddFirst

SpecScore == InitScore /\ [][NextScore]_vars

\* ------------------------------------------------------- add_chat alone

ChatTexts == {"", "ok", "Bob", "remember my favorite color is blue?"}

ChatWhos == {"user", "pet"}

\* add_chat(text, who)
add_chat(text, who) == Add("chat", [text |-> text, who |-> who])

AddChat == \E text \in ChatTexts : \E who \in ChatWhos : add_chat(text, who)

NextChat == AddChat

\* the clock stands still in these runs: a sweep run inline finds every entry
\* at age 0 and changes nothing
SpecChat == Init /\ [][NextChat]_vars

\* ------------------------------- the store built as TieredMemory()

\* TieredMemory(): recent_max=20, important_max=100
default_recent_max == 20

default_important_max == 100

\* self.recent_max, self.important_max of TieredMemory()
DefaultCapacity == [recent_max |-> default_recent_max, important_max |-> default_important_max]

\* deque(maxlen=maxlen).append(event)
deque_append_maxlen(dq, event, maxlen) ==
    LET all == Append(dq, event)
    IN  IF Len(all) > maxlen THEN SubSeq(all, Len(all) - maxlen + 1, Len(all)) ELSE all

\* _trim_important() of a store whose important_max is max
_trim_important_to(list, max) ==
    IF Len(list) > max THEN SliceTo(SortDesc(list), max) ELSE list

\* a store as a value: the layers, the counter, the next serial number and the
\* events ingested since the last clear
NewStore ==
    [recent |-> <<>>, important |-> <<>>, archive |-> <<>>, _event_counter |-> 0,
     nextId |-> 1, ingested |-> <<>>]

\* add(type_str, data) at time now on a store of the default capacities
add_default(st, type_str, data, now) ==
    LET event == [data |-> data, timestamp |-> now, type |-> type_str, id |-> st.nextId]
        score == _score_importance(type_str, data)
        scored == [data |-> data, importance |-> score, timestamp |-> now, type |-> type_str,
                   id |-> st.nextId]
        promoted == IF Promoted(score)
                    THEN _trim_important_to(Append(st.important, scored), default_important_max)
                    ELSE st.important
        counter == st._event_counter + 1
        swept == IF SweepDue(counter)
                 THEN _decay_and_archive(promoted, st.archive, now)
                 ELSE [important |-> promoted, archive |-> st.archive]
    IN  [recent |-> deque_append_maxlen(st.recent, event, default_recent_max),
         important |-> swept.important,
         archive |-> swept.archive,
         _event_counter |-> counter,
         nextId |-> st.nextId + 1,
         ingested |-> Append(st.ingested, event)]

\* _decay_and_archive() at time now
sweep_default(st, now) ==
    LET swept == _decay_and_archive(st.important, st.archive, now)
    IN  [st EXCEPT !.important = swept.important, !.archive = swept.archive]

RECURSIVE Replay(_, _, _)
\* the store after the calls of script from call i on (the test on the serial
\* number is always true: it makes the store after each call a value before
\* the next call reads it)
Replay(st, script, i) ==
    IF i > Len(script) THEN st
    ELSE LET c == script[i]
             after == IF c.op = "sweep"
                      THEN sweep_default(st, c.now)
                      ELSE add_default(st, c.type, c.data, c.now)
         IN  IF after.nextId >= st.nextId THEN Replay(after, script, i + 1) ELSE st

\* add calls explored per run on such a store
DigestAdds == 3

\* earlier sessions: OldChats chats, one a day and the last two on the fourth
\* day, all archived by a sweep on DigestDay
DigestDay == 5

OldChat(i) ==
    [data |-> [text |-> "day " \o ToStr(i), who |-> "user"], type |-> "chat",
     now |-> Min(i - 1, 3) * one_day, op |-> "add"]

\* this session: facts the pet keeps (a chat, a skill, a vision summary in turn)
KeptData(i) ==
    CASE i % 3 = 1 -> <<"chat", [text |-> "ok", who |-> "pet"]>>
      [] i % 3 = 2 -> <<"skill", [name |-> "dig"]>>
      [] OTHER -> <<"vision", [summary |-> "desk", path |-> "shot.png"]>>

KeptFact(i) ==
    [data |-> KeptData(i)[2], type |-> KeptData(i)[1], now |-> DigestDay * one_day, op |-> "add"]

\* this session: add_app_activity("app<i>", "dev")
Activity(i) ==
    [data |-> [app |-> "app" \o ToStr(i), category |-> "dev", surprised |-> FALSE,
               curious |-> FALSE], type |-> "app_activity",
     now |-> DigestDay * one_day,
     op |-> "add"]

History(old, kept, acts) ==
    [i \in 1..old |-> OldChat(i)]
        \o (IF old > 0 THEN <<[now |-> DigestDay * one_day, op |-> "sweep"]>> ELSE <<>>)
        \o [i \in 1..kept |-> KeptFact(i)]
        \o [i \in 1..acts |-> Activity(i)]

OldChats == {0, 5}

KeptFacts == {0, 5}

Activities == {0, 19}

DigestInputs ==
    { <<"chat", [text |-> "remember this?", who |-> "user"]>>,
      <<"chat", [text |-> "a\nb", who |-> "user"]>>,
      <<"location", [pos |-> <<1, 2, 3>>]>>,
      <<"skill", [name |-> "dig"]>>,
      <<"app_activity", [app |-> "mail", category |-> "web", surprised |-> FALSE,
                         curious |-> FALSE]>> }

InitDigest ==
    \E old \in OldChats : \E kept \in KeptFacts : \E acts \in Activities :
        LET st == Replay(NewStore, History(old, kept, acts), 1)
        IN  /\ recent = st.recent
            /\ important = st.important
            /\ archive = st.archive
            /\ _event_counter = st._event_counter
            /\ nextId = st.nextId
            /\ ingested = st.ingested
            /\ clock = DigestDay * one_day
            /\ last = NoCall
            /\ capacity = DefaultCapacity
            /\ frames = NoThreads
            /\ NoBridge

CurrentStore ==
    [recent |-> recent, important |-> important, archive |-> archive,
     _event_counter |-> _event_counter, nextId |-> nextId, ingested |-> ingested]

DigestBudgetLeft ==
    \E old \in OldChats : \E kept \in KeptFacts : \E acts \in Activities :
        nextId - (old + kept + acts) \in 1..DigestAdds

\* add(type_str, data) on the store of the default capacities
AddDefault(type_str, data) ==
    LET st == add_default(CurrentStore, type_str, data, clock)
        score == _score_importance(type_str, data)
    IN  /\ DigestBudgetLeft
        /\ recent' = st.recent
        /\ important' = st.important
        /\ archive' = st.archive
        /\ _event_counter' = st._event_counter
        /\ nextId' = st.nextId
        /\ ingested' = st.ingested
        /\ last' = [id |-> nextId, op |-> "add", score |-> score,
                    steps |-> <<"append", "score">>
                              \o (IF Promoted(score) THEN <<"promote", "trim">> ELSE <<>>)
                              \o <<"count">>
                              \o (IF SweepDue(st._event_counter) THEN <<"sweep">> ELSE <<>>)]
        /\ UNCHANGED <<clock, capacity, frames, bridge_vars>>

AddDigest == \E in \in DigestInputs : AddDefault(in[1], in[2])

NextDigest == AddDigest

SpecDigest == InitDigest /\ [][NextDigest]_vars

\* ------------------------------------------- _trim_important on any list

\* self.important is a plain public list: _trim_important is run here on every
\* list of up to important_max + TrimOver entries, in any order, whose
\* importances are a chat's promotion score and what sweeps make of it.
TrimScores == {FP(900), FP(450), FP(225)}

TrimLists == UNION {[1..n -> TrimScores] : n \in 0..(important_max + TrimOver)}

TrimEntry(i, score) ==
    [data |-> [text |-> "ok", who |-> "user"], importance |-> score, timestamp |-> 0,
     type |-> "chat", id |-> i]

InitTrim ==
    \E scores \in TrimLists :
        /\ important = [i \in 1..Len(scores) |-> TrimEntry(i, scores[i])]
        /\ recent = <<>>
        /\ archive = <<>>
        /\ ingested = <<>>
        /\ _event_counter = 0
        /\ clock = 0
        /\ nextId = Len(scores) + 1
        /\ last = NoCall
        /\ capacity = [recent_max |-> recent_max, important_max |-> important_max]
        /\ frames = NoThreads
        /\ NoBridge

NextTrim == Trim

SpecTrim == InitTrim /\ [][NextTrim]_vars

\* --------------------------------------------------------------- queries

\* get_recent(count)
get_recent(count) == SliceFrom(recent, 0 - count)

\* the list came back in the order the layer holds it
get_important_Unsorted(count) == SliceTo(important, count)

\* get_important(count): sorted(...)[:count]
get_important(count) == SliceTo(SortDesc(important), count)

\* ----------------------------------------------- the digest (206-260)

\* Python: str(data) of an empty dict or of a dict with one key and a plain
\* string value
StrDict(data) ==
    IF DOMAIN data = {} THEN "{}"
    ELSE LET key == CHOOSE k \in DOMAIN data : TRUE
         IN  "{'" \o key \o "': '" \o data[key] \o "'}"

_format_event(event) ==
    LET t == event.type
        data == event.data
        pos == Get(data, "pos", <<0, 0, 0>>)
    IN  IF t = "chat"
        THEN Get(data, "who", "user") \o ": " \o Prefix(Get(data, "text", ""), 80)
        ELSE IF t = "vision"
        THEN "[vision] " \o Prefix(Get(data, "summary", ""), 80)
        ELSE IF t = "app_activity"
        THEN "[using] " \o Get(data, "app", "Unknown")
                 \o " (" \o Get(data, "category", "unknown") \o ")"
        ELSE IF t = "location"
        THEN "[at] " \o ToStr(pos[1]) \o ", " \o ToStr(pos[2]) \o ", " \o ToStr(pos[3])
        ELSE "[" \o t \o "] " \o Prefix(StrDict(data), 60)

RecentHeader == "=== RECENT (last events) ==="

ImportantHeader == "=== IMPORTANT (remembered facts) ==="

ArchiveHeader == "=== ARCHIVE (past sessions) ==="

\* the characters of a date key, in code point order
KeyChars == "-0123456789"

CharRank(c) == CHOOSE i \in 1..Len(KeyChars) : CharAt(KeyChars, i) = c

RECURSIVE StrLess(_, _)
\* Python: a < b on str
StrLess(a, b) ==
    IF Len(a) = 0 THEN Len(b) > 0
    ELSE IF Len(b) = 0 THEN FALSE
    ELSE IF CharAt(a, 1) = CharAt(b, 1)
         THEN StrLess(SubSeq(a, 2, Len(a)), SubSeq(b, 2, Len(b)))
         ELSE CharRank(CharAt(a, 1)) < CharRank(CharAt(b, 1))

RECURSIVE SortedKeysDesc(_)
\* sorted(keys, reverse=True)
SortedKeysDesc(keys) ==
    IF keys = {} THEN <<>>
    ELSE LET top == CHOOSE k \in keys : \A o \in keys \ {k} : StrLess(o, k)
         IN  <<top>> \o SortedKeysDesc(keys \ {top})

FormatAll(events) == [i \in 1..Len(events) |-> _format_event(events[i])]

\* the last four events only
RecentSection_LastFour ==
    IF recent # <<>>
    THEN <<RecentHeader>> \o FormatAll(SliceFrom(recent, 0 - 4))
    ELSE <<>>

\* lines 211-215
RecentSection ==
    IF recent # <<>>
    THEN <<RecentHeader>> \o FormatAll(SliceFrom(recent, 0 - 5))
    ELSE <<>>

\* the header is written whether or not the layer holds anything
ImportantSection_AlwaysHeader ==
    <<"", ImportantHeader>> \o FormatAll(SliceTo(SortDesc(important), 5))

\* lines 218-223
ImportantSection ==
    IF important # <<>>
    THEN <<"", ImportantHeader>> \o FormatAll(SliceTo(SortDesc(important), 5))
    ELSE <<>>

ArchiveLine(date) == "[" \o date \o "] " \o ToStr(archive[date].event_count) \o " events"

\* the three oldest days, oldest first
ArchiveSection_OldestFirst ==
    IF DOMAIN archive # {}
    THEN LET newest_first == SortedKeysDesc(DOMAIN archive)
             oldest_first == [i \in 1..Len(newest_first) |->
                                 newest_first[Len(newest_first) - i + 1]]
             recent_dates == SliceTo(oldest_first, 3)
         IN  <<"", ArchiveHeader>> \o [i \in 1..Len(recent_dates) |-> ArchiveLine(recent_dates[i])]
    ELSE <<>>

\* lines 226-232
ArchiveSection ==
    IF DOMAIN archive # {}
    THEN LET recent_dates == SliceTo(SortedKeysDesc(DOMAIN archive), 3)
         IN  <<"", ArchiveHeader>> \o [i \in 1..Len(recent_dates) |-> ArchiveLine(recent_dates[i])]
    ELSE <<>>

lines == RecentSection \o ImportantSection \o ArchiveSection

RECURSIVE Join(_, _)
\* Python: sep.join(items)
Join(items, sep) ==
    IF Len(items) = 0 THEN ""
    ELSE IF Len(items) = 1 THEN items[1]
         ELSE items[1] \o sep \o Join(SubSeq(items, 2, Len(items)), sep)

\* lines[:max_items]
shown_lines(max_items) == SliceTo(lines, max_items)

get_context_summary(max_items) == Join(shown_lines(max_items), "\n")

default_max_items == 15

\* ------------------------------------------- the read accessors as calls

\* Python: None
None == [none |-> TRUE]

\* get_archive_for_date(date_str): self.archive.get(date_str)
get_archive_for_date(date_str) ==
    IF date_str \in DOMAIN archive THEN archive[date_str] ELSE None

\* get_memory_stats(); memory_ratio to the nearest 1/8000
get_memory_stats ==
    [recent_items |-> Len(recent),
     important_items |-> Len(important),
     archive_days |-> Cardinality(DOMAIN archive),
     total_events |-> _event_counter,
     memory_ratio |-> (2 * Len(important) * FP(1000) + Len(recent) + 1)
                          \div (2 * (Len(recent) + 1))]

\* what the accessor op returns for the argument arg in the current state
Returned(op, arg) ==
    CASE op = "get_context_summary" -> get_context_summary(arg)
      [] op = "get_recent" -> get_recent(arg)
      [] op = "get_important" -> get_important(arg)
      [] op = "get_archive_for_date" -> get_archive_for_date(arg)
      [] op = "get_memory_stats" -> get_memory_stats

\* a call of get_important that sorts self.important itself
GetImportant_SortsInPlace(count) ==
    /\ last' = [id |-> 0, op |-> "get_important", score |-> 0, steps |-> <<>>,
                arg |-> count, result |-> get_important(count)]
    /\ important' = SortDesc(important)
    /\ UNCHANGED <<recent, archive, _event_counter, clock, nextId, ingested, capacity, frames, bridge_vars>>

\* a call of an accessor: the caller receives the result, the store is not touched
ReadCall(op, arg) ==
    /\ last' = [id |-> 0, op |-> op, score |-> 0, steps |-> <<>>,
                arg |-> arg, result |-> Returned(op, arg)]
    /\ UNCHANGED <<recent, important, archive, _event_counter, clock, nextId, ingested,
                   capacity, frames, bridge_vars>>

GetContextSummary(max_items) == ReadCall("get_context_summary", max_items)

GetRecent(count) == ReadCall("get_recent", count)

GetImportant(count) == ReadCall("get_important", count)

GetArchiveForDate(date_str) == ReadCall("get_archive_for_date", date_str)

GetMemoryStats == ReadCall("get_memory_stats", 0)

Read ==
    \/ \E max_items \in {7, default_max_items} : GetContextSummary(max_items)
    \/ \E count \in {0, 2} : GetRecent(count)
    \/ \E count \in {2, 10} : GetImportant(count)
    \/ \E date_str \in {"1970-01-04", "2000-01-01"} : GetArchiveForDate(date_str)
    \/ GetMemoryStats

SpecRead == InitDigest /\ [][AddDigest \/ Read]_vars

\* ------------------------------------------- payloads with non-string values

\* add is public and takes any dict: the value under one key is None
NonStringKinds == {"chat", "vision", "skill"}

NonStringKeys == {"text", "summary", "who"}

\* data.get("text", "").lower() / data.get("summary", "").lower(): the key is
\* present, so get returns the None stored under it and None has no lower()
lower_raises(event_type, key) ==
    \/ event_type = "chat" /\ key = "text"
    \/ event_type = "vision" /\ key = "summary"

\* add(type_str, {key: None}): when the scoring raises, the handler has run
\* line 67 and nothing after line 70
AddNonString(type_str, key) ==
    LET data == [k \in {key} |-> None]
        event == [data |-> data, timestamp |-> clock, type |-> type_str, id |-> nextId]
    IN  IF lower_raises(type_str, key)
        THEN /\ DigestBudgetLeft
             /\ recent' = deque_append_maxlen(recent, event, default_recent_max)
             /\ nextId' = nextId + 1
             /\ ingested' = Append(ingested, event)
             /\ last' = [id |-> nextId, op |-> "add", score |-> 0,
                         steps |-> <<"append", "raise">>]
             /\ UNCHANGED <<important, archive, _event_counter, clock, capacity, frames, bridge_vars>>
        ELSE AddDefault(type_str, data)

AddMalformed == \E type_str \in NonStringKinds : \E key \in NonStringKeys :
                    AddNonString(type_str, key)

SpecMalformed == InitDigest /\ [][AddMalformed]_vars

\* ---------------------------------- partial payloads and kinds not in the table

LongSky == "cloudy with a chance of rain in the evening and fog at night"

\* payloads that lack the keys the formatter reads, a position of two
\* components, and a kind the table does not hold
PartialInputs ==
    { <<"chat", <<>>>>,
      <<"vision", <<>>>>,
      <<"app_activity", <<>>>>,
      <<"location", <<>>>>,
      <<"location", [pos |-> <<1, 2>>]>>,
      <<"weather", <<>>>>,
      <<"weather", [sky |-> LongSky]>> }

AddPartial == \E in \in PartialInputs : AddDefault(in[1], in[2])

\* line 257: pos[0], pos[1], pos[2] of a position that has fewer components
format_raises(event) ==
    event.type = "location" /\ Len(Get(event.data, "pos", <<0, 0, 0>>)) < 3

\* lines 214-215 and 222-223 format the last five Recent events and the top
\* five Important ones, before lines[:max_items] is taken
summary_raises ==
    \/ \E i \in 1..Len(SliceFrom(recent, 0 - 5)) : format_raises(SliceFrom(recent, 0 - 5)[i])
    \/ \E i \in 1..Len(SliceTo(SortDesc(important), 5)) :
           format_raises(SliceTo(SortDesc(important), 5)[i])

\* get_context_summary(max_items), IndexError included
Summarize(max_items) ==
    IF summary_raises
    THEN /\ last' = [id |-> 0, op |-> "get_context_summary", score |-> 0,
                     steps |-> <<"raise">>, arg |-> max_items, result |-> ""]
         /\ UNCHANGED <<recent, important, archive, _event_counter, clock, nextId, ingested,
                        capacity, frames, bridge_vars>>
    ELSE GetContextSummary(max_items)

SummarizeAny == \E max_items \in {3, default_max_items} : Summarize(max_items)

SpecPartial == InitDigest /\ [][AddPartial \/ SummarizeAny]_vars

\* ------------------------------------------ TieredMemory(recent_max, important_max)

\* the capacities a caller passes, none of them checked by __init__
Capacities == {0 - 1, 0, 1, 2}

\* line 42: deque(maxlen=recent_max) raises ValueError for a negative maxlen
\* and for nothing else
init_raises(rmax) == rmax < 0

\* TieredMemory(rmax, imax)
InitConfig ==
    \E rmax \in Capacities : \E imax \in Capacities :
        /\ capacity = [recent_max |-> rmax, important_max |-> imax]
        /\ recent = <<>>
        /\ important = <<>>
        /\ archive = <<>>
        /\ _event_counter = 0
        /\ clock = 0
        /\ nextId = 1
        /\ ingested = <<>>
        /\ last = [id |-> 0, op |-> "__init__", score |-> 0,
                   steps |-> IF init_raises(rmax) THEN <<"raise">> ELSE <<>>]
        /\ frames = NoThreads
        /\ NoBridge

\* the constructor returned an instance
Constructed == ~init_raises(capacity.recent_max)

\* add(type_str, data) on the instance as it was configured
AddConfigured(type_str, data) ==
    LET event == [data |-> data, timestamp |-> clock, type |-> type_str, id |-> nextId]
        score == _score_importance(type_str, data)
        scored == [data |-> data, importance |-> score, timestamp |-> clock, type |-> type_str,
                   id |-> nextId]
        promoted == IF Promoted(score)
                    THEN _trim_important_to(Append(important, scored), capacity.important_max)
                    ELSE important
        counter == _event_counter + 1
        swept == IF SweepDue(counter)
                 THEN _decay_and_archive(promoted, archive, clock)
                 ELSE [important |-> promoted, archive |-> archive]
    IN  /\ Constructed
        /\ nextId <= MaxAdds
        /\ recent' = deque_append_maxlen(recent, event, capacity.recent_max)
        /\ important' = swept.important
        /\ archive' = swept.archive
        /\ _event_counter' = counter
        /\ nextId' = nextId + 1
        /\ ingested' = Append(ingested, event)
        /\ last' = [id |-> nextId, op |-> "add", score |-> score,
                    steps |-> <<"append", "score">>
                              \o (IF Promoted(score) THEN <<"promote", "trim">> ELSE <<>>)
                              \o <<"count">>
                              \o (IF SweepDue(counter) THEN <<"sweep">> ELSE <<>>)]
        /\ UNCHANGED <<clock, capacity, frames, bridge_vars>>

AddConfiguredAny == \E in \in Inputs : AddConfigured(in[1], in[2])

SpecConfig == InitConfig /\ [][AddConfiguredAny]_vars

\* ------------------------------------------------- a clock that is set back

\* time.time() is the wall clock: it can be set back between two calls
SkewReadings == {0, one_hour, 3 * one_hour}

\* the wall clock reads another instant, later or earlier
Drift ==
    /\ \E t \in SkewReadings : t # clock /\ clock' = t
    /\ UNCHANGED <<recent, important, archive, _event_counter, nextId, ingested, last,
                   capacity, frames, bridge_vars>>

\* _decay_and_archive() called on its own, while no importance has left [0, 1]
\* (the scores of later sweeps grow without bound)
SweepInRange ==
    /\ \A i \in 1..Len(important) : important[i].importance <= FP(1000)
    /\ Sweep

SpecSkew == Init /\ [][AddAny \/ SweepInRange \/ Drift]_vars

\* ------------------------------------------------- clear() and what follows

\* clear() during or after the first DigestAdds adds of a run
ClearEarly ==
    /\ \E old \in OldChats : \E kept \in KeptFacts : \E acts \in Activities :
           nextId - (old + kept + acts) \in 1..(DigestAdds + 1)
    /\ Clear

\* the variables take the store st, and call is the call that ran last
StoreBecomes(st, call) ==
    /\ recent' = st.recent
    /\ important' = st.important
    /\ archive' = st.archive
    /\ _event_counter' = st._event_counter
    /\ nextId' = st.nextId
    /\ ingested' = st.ingested
    /\ last' = call
    /\ UNCHANGED <<clock, capacity, frames, bridge_vars>>

\* the store after the calls of script, run as two halves one after the other
\* (the evaluation of a long script is then half as deep)
ReplayAll(st, script) ==
    LET half == Len(script) \div 2
        midway == Replay(st, SubSeq(script, 1, half), 1)
    IN  Replay(midway, SubSeq(script, half + 1, Len(script)), 1)

\* right after a clear: add_app_activity called SweepInterval - PreloadGap
\* times in a row
Burst ==
    LET calls == [i \in 1..(SweepInterval - PreloadGap) |-> [Activity(i) EXCEPT !.now = clock]]
        st == ReplayAll(CurrentStore, calls)
    IN  /\ last.op = "clear"
        /\ StoreBecomes(st, [id |-> st.nextId - 1, op |-> "add", score |-> FP(300),
                             steps |-> <<"append", "score", "count">>])

\* add(type_str, data) when the counter is within PreloadGap of a multiple of
\* SweepInterval
AddNearSweep(type_str, data) ==
    LET st == add_default(CurrentStore, type_str, data, clock)
        score == _score_importance(type_str, data)
    IN  /\ _event_counter % SweepInterval >= SweepInterval - PreloadGap
        /\ StoreBecomes(st, [id |-> nextId, op |-> "add", score |-> score,
                             steps |-> <<"append", "score">>
                                 \o (IF Promoted(score) THEN <<"promote", "trim">> ELSE <<>>)
                                 \o <<"count">>
                                 \o (IF SweepDue(st._event_counter) THEN <<"sweep">> ELSE <<>>)])

\* one kind that is promoted and one that is not
NearSweepInputs == {in \in DigestInputs : in[1] \in {"skill", "app_activity"}}

AddNearSweepAny == \E in \in NearSweepInputs : AddNearSweep(in[1], in[2])

SpecClear == InitDigest /\ [][AddDigest \/ ClearEarly \/ Burst \/ AddNearSweepAny]_vars

\* ----------------------------------------- chats whose texts contain one another

\* what the user says: one text is the beginning of the other
FragmentTexts == {"ok then", "ok"}

AddFragment ==
    \/ \E text \in FragmentTexts : add_chat(text, "user")
    \/ Add("skill", [name |-> "dig"])

SpecFragments == Init /\ [][AddFragment \/ Sweep \/ Tick]_vars

\* ------------------------------------------------ threads without a lock

\* No method of the class takes a lock.  A thread inside a call is in frames
\* with the place it is at (pc) and its locals; one step is one access to what
\* the threads share (a layer, the counter, a bucket, the importance of an
\* entry), together with the work on locals that follows it.
\*
\* Lists are objects.  important is what the list bound to self.important
\* shows; a thread that walks or sorts a list holds a reference to it: ref is
\* "self" while that list is the one bound to self.important, and "own" once
\* another thread has bound self.important to a new list (lines 168 and 200),
\* list then being what the old list shows.  With two writers no list that is
\* not bound is referred to by both.
\*
\* Entries are dicts.  An entry is in every list that refers to it; line 163
\* writes its importance in all of them at once (SetEntry).

Writers == {"t1", "t2"}

NoEntry == [data |-> <<>>, importance |-> 0, timestamp |-> 0, type |-> "", id |-> 0]

Frame(pc) ==
    [i |-> 0, cur |-> NoEntry, summary |-> "", event |-> NoEntry, list |-> <<>>, now |-> 0,
     decayed |-> <<>>, op |-> "add", count |-> 0, keys |-> <<>>, lines |-> <<>>, arg |-> 0,
     pc |-> pc, seen |-> 0, ref |-> "self", d |-> NoEntry, saved |-> <<>>, mucked |-> FALSE,
     cut |-> <<>>, orphan |-> FALSE, snap |-> <<>>, dates |-> <<>>]

At(t, pc) == t \in DOMAIN frames /\ frames[t].pc = pc

\* the calls in progress without thread t's
Returns(t) ==
    IF DOMAIN frames \ {t} = {} THEN NoThreads
    ELSE [u \in DOMAIN frames \ {t} |-> frames[u]]

\* the places at which a thread holds a reference to a list: between the
\* read of self.important and the call made on the list read, inside
\* list.sort, and in the loop of the sweep
HoldPcs ==
    {"append", "len", "sort", "key", "cut", "imp_test", "snap",
     "iter", "read", "write", "arch_test", "arch_make", "arch_load", "arch_append",
     "arch_count_load", "arch_count_store", "arch_sum_test", "arch_sum_load",
     "arch_sum_store"}

HoldsSelf(g) == g.ref = "self" /\ g.pc \in HoldPcs

\* the list thread t holds, as it shows now
Held(t) == IF frames[t].ref = "own" THEN frames[t].list ELSE important

\* thread t's call on the list it holds leaves the list showing shown, and the
\* calls in progress as in fr
HeldShows(t, shown, fr) ==
    IF frames[t].ref = "own"
    THEN /\ frames' = [fr EXCEPT ![t].list = shown]
         /\ UNCHANGED important
    ELSE /\ frames' = fr
         /\ important' = shown

\* thread t holds no list any more
Released(g) == [g EXCEPT !.ref = "self", !.list = <<>>]

\* self.important is bound to a new list: a thread that refers to the old
\* one keeps it
Unbound(g) == IF HoldsSelf(g) THEN [g EXCEPT !.ref = "own", !.list = important] ELSE g

\* line 163 writes into the entry's dict, which every list that holds the entry
\* shares
SetEntry(list, d) == [k \in 1..Len(list) |-> IF list[k].id = d.id THEN d ELSE list[k]]

SetArchived(arch, d) ==
    [k \in DOMAIN arch |-> [arch[k] EXCEPT !.events = SetEntry(arch[k].events, d)]]

SetInFrame(g, d) ==
    [g EXCEPT !.list = SetEntry(g.list, d), !.decayed = SetEntry(g.decayed, d),
              !.saved = SetEntry(g.saved, d), !.cut = SetEntry(g.cut, d),
              !.snap = SetEntry(g.snap, d),
              !.cur = IF g.cur.id = d.id THEN d ELSE g.cur]

\* list sorted by the keys read for its elements, descending and stable
SortByKeys(list, keys) ==
    LET order == SortDesc([k \in 1..Len(list) |-> [importance |-> keys[k], idx |-> k]])
    IN  [k \in 1..Len(list) |-> list[order[k].idx]]

\* the entry line 72 appends
Scored(event) ==
    [data |-> event.data, importance |-> _score_importance(event.type, event.data),
     timestamp |-> event.timestamp, type |-> event.type, id |-> event.id]

\* the runs of threads begin one call nearer to the sweep than those of one
\* caller, so that a second call can overlap the one that sweeps
WriterPreload == SweepInterval - (PreloadGap - 1)

\* the calls made before a run of threads: app activity, and last either one
\* more of it or a skill, which is remembered
WriterPreloadEvent(i, learnt) ==
    IF learnt /\ i = WriterPreload
    THEN [data |-> [name |-> "dig"], timestamp |-> 0, type |-> "skill", id |-> i]
    ELSE PreloadEvent(i)

InitWriters ==
    \E learnt \in BOOLEAN :
        /\ ingested = [i \in 1..WriterPreload |-> WriterPreloadEvent(i, learnt)]
        /\ recent = [i \in 1..recent_max |->
                        WriterPreloadEvent(WriterPreload - recent_max + i, learnt)]
        /\ important = IF learnt THEN <<Scored(WriterPreloadEvent(WriterPreload, TRUE))>>
                       ELSE <<>>
        /\ archive = <<>>
        /\ _event_counter = WriterPreload
        /\ clock = 0
        /\ nextId = WriterPreload + 1
        /\ last = NoCall
        /\ capacity = [recent_max |-> recent_max, important_max |-> important_max]
        /\ frames = NoThreads
        /\ NoBridge

WritersBudgetLeft == nextId - WriterPreload \in 1..MaxAdds

\* one kind that is promoted and one that is not
WriterInputs == {in \in Inputs : in[1] \in {"chat", "inventory"}}

\* add, lines 59-67: the event is built and appended to self.recent
WBegin(t, type_str, data) ==
    LET event == [data |-> data, timestamp |-> clock, type |-> type_str, id |-> nextId]
    IN  /\ t \notin DOMAIN frames
        /\ recent' = deque_append(recent, event)
        /\ nextId' = nextId + 1
        /\ ingested' = Append(ingested, event)
        /\ last' = [id |-> nextId, op |-> "add",
                    score |-> _score_importance(type_str, data), steps |-> <<"append">>]
        /\ frames' = [u \in DOMAIN frames \cup {t} |->
                         IF u = t THEN [Frame("score") EXCEPT !.event = event] ELSE frames[u]]
        /\ UNCHANGED <<important, archive, _event_counter, clock, capacity, bridge_vars>>

\* lines 70-72: the score and, above the threshold, the read of
\* self.important
WPromote(t) ==
    /\ At(t, "score")
    /\ frames' = [frames EXCEPT ![t].pc =
                      IF Promoted(_score_importance(frames[t].event.type, frames[t].event.data))
                      THEN "append" ELSE "load"]
    /\ UNCHANGED <<recent, important, archive, _event_counter, clock, nextId, ingested, last,
                   capacity, bridge_vars>>

\* line 72, the append to the list read; a list that another thread is
\* sorting is modified by it
WAppend(t) ==
    /\ At(t, "append")
    /\ HeldShows(t, Append(Held(t), Scored(frames[t].event)),
                 [u \in DOMAIN frames |->
                     IF u = t THEN Released([frames[t] EXCEPT !.pc = "len_load"])
                     ELSE IF frames[u].pc = "key" /\ frames[u].ref = "self"
                             /\ frames[t].ref = "self"
                          THEN [frames[u] EXCEPT !.mucked = TRUE]
                          ELSE frames[u]])
    /\ UNCHANGED <<recent, archive, _event_counter, clock, nextId, ingested, last, capacity,
                   bridge_vars>>

\* _trim_important, line 197, the read of self.important
WTrimLoad(t) ==
    /\ At(t, "len_load")
    /\ frames' = [frames EXCEPT ![t].pc = "len", ![t].ref = "self", ![t].list = <<>>]
    /\ UNCHANGED <<recent, important, archive, _event_counter, clock, nextId, ingested, last,
                   capacity, bridge_vars>>

\* line 197, the length of the list read
WTrimTest(t) ==
    /\ At(t, "len")
    /\ frames' = [frames EXCEPT ![t] = Released([@ EXCEPT !.pc =
                      IF Len(Held(t)) > important_max THEN "sort_load" ELSE "load"])]
    /\ UNCHANGED <<recent, important, archive, _event_counter, clock, nextId, ingested, last,
                   capacity, bridge_vars>>

\* line 199, the read of self.important
WSortLoad(t) ==
    /\ At(t, "sort_load")
    /\ frames' = [frames EXCEPT ![t].pc = "sort", ![t].ref = "self", ![t].list = <<>>]
    /\ UNCHANGED <<recent, important, archive, _event_counter, clock, nextId, ingested, last,
                   capacity, bridge_vars>>

\* line 199, list.sort begins: the list is made empty for the time of the
\* sort and its elements are kept aside; a list that shows nothing is sorted at
\* once
WSortBegin(t) ==
    /\ At(t, "sort")
    /\ IF Held(t) = <<>>
       THEN /\ frames' = [frames EXCEPT ![t] = Released([@ EXCEPT !.pc = "cut_load"])]
            /\ UNCHANGED important
       ELSE HeldShows(t, <<>>, [frames EXCEPT ![t].pc = "key", ![t].saved = Held(t),
                                              ![t].keys = <<>>, ![t].mucked = FALSE])
    /\ UNCHANGED <<recent, archive, _event_counter, clock, nextId, ingested, last, capacity,
                   bridge_vars>>

\* line 199, the key function is called for the next element
WSortKey(t) ==
    /\ At(t, "key")
    /\ Len(frames[t].keys) < Len(frames[t].saved)
    /\ frames' = [frames EXCEPT ![t].keys =
                      Append(@, frames[t].saved[Len(frames[t].keys) + 1].importance)]
    /\ UNCHANGED <<recent, important, archive, _event_counter, clock, nextId, ingested, last,
                   capacity, bridge_vars>>

\* line 199, list.sort ends: the list gets its elements back in order, and
\* what was put into it meanwhile is dropped with ValueError("list modified
\* during sort"), which add does not catch
WSortEnd(t) ==
    /\ At(t, "key")
    /\ Len(frames[t].keys) = Len(frames[t].saved)
    /\ LET f == frames[t]
       IN  /\ important' = IF f.ref = "self" THEN SortByKeys(f.saved, f.keys) ELSE important
           /\ IF f.mucked
              THEN /\ frames' = Returns(t)
                   /\ last' = [id |-> f.event.id, op |-> "add",
                               score |-> _score_importance(f.event.type, f.event.data),
                               steps |-> <<"append", "score", "promote", "raise">>]
              ELSE /\ frames' = [frames EXCEPT ![t] =
                           Released([f EXCEPT !.pc = "cut_load", !.saved = <<>>,
                                              !.keys = <<>>])]
                   /\ UNCHANGED last
    /\ UNCHANGED <<recent, archive, _event_counter, clock, nextId, ingested, capacity,
                   bridge_vars>>

\* line 200, the read of self.important
WCutLoad(t) ==
    /\ At(t, "cut_load")
    /\ frames' = [frames EXCEPT ![t].pc = "cut", ![t].ref = "self", ![t].list = <<>>]
    /\ UNCHANGED <<recent, important, archive, _event_counter, clock, nextId, ingested, last,
                   capacity, bridge_vars>>

\* line 200, the slice of the list read
WCutSlice(t) ==
    /\ At(t, "cut")
    /\ frames' = [frames EXCEPT ![t] = Released([@ EXCEPT !.pc = "bind",
                      !.cut = SliceTo(Held(t), important_max)])]
    /\ UNCHANGED <<recent, important, archive, _event_counter, clock, nextId, ingested, last,
                   capacity, bridge_vars>>

\* line 200, self.important is bound to the slice
WCutStore(t) ==
    /\ At(t, "bind")
    /\ important' = frames[t].cut
    /\ frames' = [u \in DOMAIN frames |->
                     IF u = t THEN [frames[t] EXCEPT !.pc = "load", !.cut = <<>>]
                     ELSE Unbound(frames[u])]
    /\ UNCHANGED <<recent, archive, _event_counter, clock, nextId, ingested, last, capacity,
                   bridge_vars>>

\* line 75, the read of self._event_counter
WLoad(t) ==
    /\ At(t, "load")
    /\ frames' = [frames EXCEPT ![t].pc = "store", ![t].seen = _event_counter]
    /\ UNCHANGED <<recent, important, archive, _event_counter, clock, nextId, ingested, last,
                   capacity, bridge_vars>>

\* line 75, the write of the value read plus one
WStore(t) ==
    /\ At(t, "store")
    /\ _event_counter' = frames[t].seen + 1
    /\ frames' = [frames EXCEPT ![t].pc = "check", ![t].seen = 0]
    /\ UNCHANGED <<recent, important, archive, clock, nextId, ingested, last, capacity,
                   bridge_vars>>

\* line 78, on the counter as it is now
WCheck(t) ==
    /\ At(t, "check")
    /\ frames' = IF SweepDue(_event_counter)
                 THEN [frames EXCEPT ![t].pc = "sweep"]
                 ELSE Returns(t)
    /\ UNCHANGED <<recent, important, archive, _event_counter, clock, nextId, ingested, last,
                   capacity, bridge_vars>>

\* _decay_and_archive, lines 151-157: the clock is read, and the loop begins
\* on the list self.important is bound to
WSweepBegin(t) ==
    /\ At(t, "sweep")
    /\ frames' = [frames EXCEPT ![t].pc = "iter", ![t].now = clock, ![t].i = 1,
                                ![t].ref = "self", ![t].list = <<>>]
    /\ UNCHANGED <<recent, important, archive, _event_counter, clock, nextId, ingested, last,
                   capacity, bridge_vars>>

\* line 157, the loop takes the next element of the list, or ends
WIter(t) ==
    /\ At(t, "iter")
    /\ frames' = IF frames[t].i <= Len(Held(t))
                 THEN [frames EXCEPT ![t].pc = "read", ![t].cur = Held(t)[frames[t].i],
                                     ![t].i = @ + 1]
                 ELSE [frames EXCEPT ![t].pc = "assign", ![t].cur = NoEntry]
    /\ UNCHANGED <<recent, important, archive, _event_counter, clock, nextId, ingested, last,
                   capacity, bridge_vars>>

\* lines 158-162 and 165: the entry's importance is read and decayed, and the
\* two tests are made on the result
WRead(t) ==
    /\ At(t, "read")
    /\ LET f == frames[t]
       IN  frames' = IF KeepEntry(f.cur, f.now)
                     THEN [frames EXCEPT ![t].pc = "write", ![t].d = Decayed(f.cur, f.now)]
                     ELSE IF ArchiveEntry(f.cur, f.now)
                          THEN [frames EXCEPT ![t].pc = "arch_test"]
                          ELSE [frames EXCEPT ![t].pc = "iter", ![t].cur = NoEntry]
    /\ UNCHANGED <<recent, important, archive, _event_counter, clock, nextId, ingested, last,
                   capacity, bridge_vars>>

\* lines 163-164: the decayed score is written into the entry, and the entry is
\* appended to the local list
WWrite(t) ==
    /\ At(t, "write")
    /\ LET d == frames[t].d
       IN  /\ important' = SetEntry(important, d)
           /\ archive' = SetArchived(archive, d)
           /\ frames' = [u \in DOMAIN frames |->
                  LET g == SetInFrame(frames[u], d)
                  IN  IF u = t
                      THEN [g EXCEPT !.pc = "iter", !.decayed = Append(g.decayed, d),
                                     !.cur = NoEntry, !.d = NoEntry]
                      ELSE g]
    /\ UNCHANGED <<recent, _event_counter, clock, nextId, ingested, last, capacity,
                   bridge_vars>>

\* the key of the bucket of the entry thread t archives
BucketKey(t) == date_key(frames[t].cur.timestamp)

\* the line of the summary for the chat thread t archives
SummaryLine(t) ==
    Get(frames[t].cur.data, "who", "") \o ": " \o Prefix(Get(frames[t].cur.data, "text", ""), 50)

\* _archive_event, lines 172-175
WArchTest(t) ==
    /\ At(t, "arch_test")
    /\ frames' = [frames EXCEPT ![t].pc = IF BucketKey(t) \in DOMAIN archive
                                          THEN "arch_load" ELSE "arch_make"]
    /\ UNCHANGED <<recent, important, archive, _event_counter, clock, nextId, ingested, last,
                   capacity, bridge_vars>>

\* lines 176-181: a new bucket is stored under the key; a thread that has read
\* the bucket replaced and is about to write to it writes to a dict that is no
\* longer in the archive
WArchMake(t) ==
    /\ At(t, "arch_make")
    /\ archive' = [k \in DOMAIN archive \cup {BucketKey(t)} |->
                      IF k = BucketKey(t) THEN NewBucket(frames[t].cur.timestamp)
                      ELSE archive[k]]
    /\ frames' = [u \in DOMAIN frames |->
                     IF u = t THEN [frames[t] EXCEPT !.pc = "arch_load"]
                     ELSE IF frames[u].pc \in {"arch_append", "arch_count_store",
                                               "arch_sum_store"}
                             /\ BucketKey(u) = BucketKey(t)
                          THEN [frames[u] EXCEPT !.orphan = TRUE]
                          ELSE frames[u]]
    /\ UNCHANGED <<recent, important, _event_counter, clock, nextId, ingested, last, capacity,
                   bridge_vars>>

\* line 184, the read of the bucket and of its list of events
WArchLoad(t) ==
    /\ At(t, "arch_load")
    /\ frames' = [frames EXCEPT ![t].pc = "arch_append", ![t].orphan = FALSE]
    /\ UNCHANGED <<recent, important, archive, _event_counter, clock, nextId, ingested, last,
                   capacity, bridge_vars>>

\* line 184, the append to the list read
WArchAppend(t) ==
    /\ At(t, "arch_append")
    /\ archive' = IF frames[t].orphan THEN archive
                  ELSE [archive EXCEPT ![BucketKey(t)].events = Append(@, frames[t].cur)]
    /\ frames' = [frames EXCEPT ![t].pc = "arch_count_load", ![t].orphan = FALSE]
    /\ UNCHANGED <<recent, important, _event_counter, clock, nextId, ingested, last, capacity,
                   bridge_vars>>

\* line 185, the read of event_count
WArchCountLoad(t) ==
    /\ At(t, "arch_count_load")
    /\ frames' = [frames EXCEPT ![t].pc = "arch_count_store",
                                ![t].count = archive[BucketKey(t)].event_count,
                                ![t].orphan = FALSE]
    /\ UNCHANGED <<recent, important, archive, _event_counter, clock, nextId, ingested, last,
                   capacity, bridge_vars>>

\* line 185, the write of the count read plus one, into the bucket it was read
\* from; line 188
WArchCountStore(t) ==
    /\ At(t, "arch_count_store")
    /\ archive' = IF frames[t].orphan THEN archive
                  ELSE [archive EXCEPT ![BucketKey(t)].event_count = frames[t].count + 1]
    /\ frames' = IF frames[t].cur.type = "chat"
                 THEN [frames EXCEPT ![t].pc = "arch_sum_test", ![t].count = 0,
                                     ![t].orphan = FALSE]
                 ELSE [frames EXCEPT ![t].pc = "iter", ![t].count = 0, ![t].orphan = FALSE,
                                     ![t].cur = NoEntry]
    /\ UNCHANGED <<recent, important, _event_counter, clock, nextId, ingested, last, capacity,
                   bridge_vars>>

\* lines 189-192, the test on the summary as it is now
WArchSumTest(t) ==
    /\ At(t, "arch_sum_test")
    /\ frames' = IF ~Contains(archive[BucketKey(t)].summary, SummaryLine(t))
                 THEN [frames EXCEPT ![t].pc = "arch_sum_load"]
                 ELSE [frames EXCEPT ![t].pc = "iter", ![t].cur = NoEntry]
    /\ UNCHANGED <<recent, important, archive, _event_counter, clock, nextId, ingested, last,
                   capacity, bridge_vars>>

\* line 193, the read of the summary
WArchSumLoad(t) ==
    /\ At(t, "arch_sum_load")
    /\ frames' = [frames EXCEPT ![t].pc = "arch_sum_store",
                                ![t].summary = archive[BucketKey(t)].summary,
                                ![t].orphan = FALSE]
    /\ UNCHANGED <<recent, important, archive, _event_counter, clock, nextId, ingested, last,
                   capacity, bridge_vars>>

\* line 193, the write of the summary read and the line, into the bucket it
\* was read from
WArchSumStore(t) ==
    /\ At(t, "arch_sum_store")
    /\ archive' = IF frames[t].orphan THEN archive
                  ELSE [archive EXCEPT ![BucketKey(t)].summary =
                            frames[t].summary \o SummaryLine(t) \o "; "]
    /\ frames' = [frames EXCEPT ![t].pc = "iter", ![t].summary = "", ![t].orphan = FALSE,
                                ![t].cur = NoEntry]
    /\ UNCHANGED <<recent, important, _event_counter, clock, nextId, ingested, last, capacity,
                   bridge_vars>>

\* line 168: self.important = decayed, and add returns
WAssign(t) ==
    /\ At(t, "assign")
    /\ important' = frames[t].decayed
    /\ frames' = IF DOMAIN frames \ {t} = {} THEN NoThreads
                 ELSE [u \in DOMAIN frames \ {t} |-> Unbound(frames[u])]
    /\ UNCHANGED <<recent, archive, _event_counter, clock, nextId, ingested, last, capacity,
                   bridge_vars>>

\* the next step of thread t inside add
WStepOf(t) ==
    \/ WPromote(t)
    \/ WAppend(t)
    \/ WTrimLoad(t)
    \/ WTrimTest(t)
    \/ WSortLoad(t)
    \/ WSortBegin(t)
    \/ WSortKey(t)
    \/ WSortEnd(t)
    \/ WCutLoad(t)
    \/ WCutSlice(t)
    \/ WCutStore(t)
    \/ WLoad(t)
    \/ WStore(t)
    \/ WCheck(t)
    \/ WSweepBegin(t)
    \/ WIter(t)
    \/ WRead(t)
    \/ WWrite(t)
    \/ WArchTest(t)
    \/ WArchMake(t)
    \/ WArchLoad(t)
    \/ WArchAppend(t)
    \/ WArchCountLoad(t)
    \/ WArchCountStore(t)
    \/ WArchSumTest(t)
    \/ WArchSumLoad(t)
    \/ WArchSumStore(t)
    \/ WAssign(t)

\* time passes, in whole hours, while no call is in progress
WTick ==
    /\ DOMAIN frames = {}
    /\ Tick

WBeginAny ==
    /\ WritersBudgetLeft
    /\ \E t \in Writers, in \in WriterInputs : WBegin(t, in[1], in[2])

WStep == \E t \in Writers : WStepOf(t)

SpecWriters == InitWriters /\ [][WBeginAny \/ WStep \/ WTick]_vars

\* ------------------------------------- a thread that adds, a thread that reads

\* the call returns result to the reader
ReaderReturns(result) ==
    /\ last' = [id |-> 0, op |-> frames.reader.op, score |-> 0, steps |-> <<>>,
                arg |-> frames.reader.arg, result |-> result]
    /\ frames' = Returns("reader")

\* the reader goes on at pc with the frame g
ReaderGoes(g) == frames' = [frames EXCEPT !.reader = g] /\ UNCHANGED last

store_of_threads == <<recent, important, archive, _event_counter, clock, nextId, ingested,
                      capacity, bridge_vars>>

\* get_context_summary(max_items), lines 208-215: self.recent is copied and its
\* last five events are formatted
RSummaryBegin(max_items) ==
    /\ "reader" \notin DOMAIN frames
    /\ frames' = [u \in DOMAIN frames \cup {"reader"} |->
                     IF u = "reader"
                     THEN [Frame("imp_load") EXCEPT !.op = "get_context_summary",
                                                    !.arg = max_items, !.lines = RecentSection]
                     ELSE frames[u]]
    /\ UNCHANGED <<store_of_threads, last>>

\* line 218, the read of self.important
RImpLoad ==
    /\ At("reader", "imp_load")
    /\ frames' = [frames EXCEPT !.reader.pc = "imp_test", !.reader.ref = "self",
                                !.reader.list = <<>>]
    /\ UNCHANGED <<store_of_threads, last>>

\* line 218, the test of the list read, and the two header lines
RImpTest ==
    /\ At("reader", "imp_test")
    /\ frames' = [frames EXCEPT !.reader =
           IF Held("reader") # <<>>
           THEN Released([@ EXCEPT !.pc = "snap_load", !.lines = @ \o <<"", ImportantHeader>>])
           ELSE Released([@ EXCEPT !.pc = "arch_test"])]
    /\ UNCHANGED <<store_of_threads, last>>

\* the lines of a digest cut to max_items and joined, line 234
Digest(g) == Join(SliceTo(g.lines, g.arg), "\n")

\* what the reader has once the copy it sorts is in order: the lines of the
\* five entries on top (line 222), or the first count entries (line 269)
ReaderSorted(g, sorted) ==
    IF g.op = "get_important"
    THEN ReaderReturns(SliceTo(sorted, g.arg))
    ELSE ReaderGoes(Released([g EXCEPT !.pc = "arch_test", !.snap = <<>>, !.keys = <<>>,
                                       !.lines = @ \o FormatAll(SliceTo(sorted, 5))]))

\* lines 221 and 268, the read of self.important
RSnapLoad ==
    /\ At("reader", "snap_load")
    /\ frames' = [frames EXCEPT !.reader.pc = "snap", !.reader.ref = "self",
                                !.reader.list = <<>>]
    /\ UNCHANGED <<store_of_threads, last>>

\* lines 221 and 268, sorted() copies the list read
RSnap ==
    /\ At("reader", "snap")
    /\ IF Held("reader") = <<>>
       THEN ReaderSorted(frames.reader, <<>>)
       ELSE ReaderGoes(Released([frames.reader EXCEPT !.pc = "imp_key",
                                                      !.snap = Held("reader"),
                                                      !.keys = <<>>]))
    /\ UNCHANGED store_of_threads

\* lines 221 and 268, the key function is called for the next element of the
\* copy; after the last one the copy is sorted
RKey ==
    /\ At("reader", "imp_key")
    /\ LET g == frames.reader
           keys == Append(g.keys, g.snap[Len(g.keys) + 1].importance)
       IN  IF Len(keys) < Len(g.snap)
           THEN ReaderGoes([g EXCEPT !.keys = keys])
           ELSE ReaderSorted(g, SortByKeys(g.snap, keys))
    /\ UNCHANGED store_of_threads

\* line 226, the test of self.archive, and the two header lines
RArchTest ==
    /\ At("reader", "arch_test")
    /\ IF DOMAIN archive # {}
       THEN ReaderGoes([frames.reader EXCEPT !.pc = "arch_keys",
                                             !.lines = @ \o <<"", ArchiveHeader>>])
       ELSE ReaderReturns(Digest(frames.reader))
    /\ UNCHANGED store_of_threads

\* line 229, the three latest keys of self.archive
RArchKeys ==
    /\ At("reader", "arch_keys")
    /\ ReaderGoes([frames.reader EXCEPT !.pc = "arch_count",
                                        !.dates = SliceTo(SortedKeysDesc(DOMAIN archive), 3)])
    /\ UNCHANGED store_of_threads

\* lines 231-232, the count of the next date is read and its line written;
\* line 234 after the last one
RArchCount ==
    /\ At("reader", "arch_count")
    /\ LET g == frames.reader
           h == [g EXCEPT !.lines = @ \o <<ArchiveLine(g.dates[1])>>,
                          !.dates = SubSeq(g.dates, 2, Len(g.dates))]
       IN  IF Len(g.dates) > 1 THEN ReaderGoes(h) ELSE ReaderReturns(Digest(h))
    /\ UNCHANGED store_of_threads

\* get_important(count) begins
RImportantBegin(count) ==
    /\ "reader" \notin DOMAIN frames
    /\ frames' = [u \in DOMAIN frames \cup {"reader"} |->
                     IF u = "reader"
                     THEN [Frame("snap_load") EXCEPT !.op = "get_important", !.arg = count]
                     ELSE frames[u]]
    /\ UNCHANGED <<store_of_threads, last>>

\* the reader thread
ReaderCall ==
    \/ RSummaryBegin(default_max_items)
    \/ \E count \in {1, 10} : RImportantBegin(count)
    \/ RImpLoad
    \/ RImpTest
    \/ RSnapLoad
    \/ RSnap
    \/ RKey
    \/ RArchTest
    \/ RArchKeys
    \/ RArchCount

\* the runs of a writer and a reader begin with nothing remembered, on a new
\* store or just before the sweep
ThreadPreloads == {0, WriterPreload}

InitThreads ==
    \E n \in ThreadPreloads :
        /\ ingested = [i \in 1..n |-> PreloadEvent(i)]
        /\ recent = [i \in 1..Min(n, recent_max) |-> PreloadEvent(n - Min(n, recent_max) + i)]
        /\ important = <<>>
        /\ archive = <<>>
        /\ _event_counter = n
        /\ clock = 0
        /\ nextId = n + 1
        /\ last = NoCall
        /\ capacity = [recent_max |-> recent_max, important_max |-> important_max]
        /\ frames = NoThreads
        /\ NoBridge

ThreadsBudgetLeft == \E n \in ThreadPreloads : nextId - n \in 1..MaxAdds

\* the writer thread
AddBeginAny ==
    /\ ThreadsBudgetLeft
    /\ \E in \in WriterInputs : WBegin("t1", in[1], in[2])

SpecThreads == InitThreads /\ [][AddBeginAny \/ WStepOf("t1") \/ ReaderCall \/ WTick]_vars

\* --------------------------------------------------------- the AgentBridge

\* queue.Queue(maxsize=200), line 39 of agent_bridge.py; the runs use a queue
\* this long
maxsize == 2

\* items offered to the queue by handle and _emit_show in one run
MaxItems == 4

\* calls of stop() in one run
MaxStops == 2

\* the n-th item offered to the queue
Item(type) == [n |-> Len(sent) + 1, type |-> type]

QueueFull == Len(_q) >= maxsize

\* the constructor, lines 36-48: an empty queue, the stop flag clear, the worker
\* thread started at the top of its loop; the store beside it is empty
InitBridge ==
    /\ recent = <<>>
    /\ important = <<>>
    /\ archive = <<>>
    /\ _event_counter = 0
    /\ clock = 0
    /\ nextId = 1
    /\ ingested = <<>>
    /\ last = NoCall
    /\ capacity = [recent_max |-> recent_max, important_max |-> important_max]
    /\ frames = [t \in {"worker"} |-> [pc |-> "test"]]
    /\ _q = <<>>
    /\ _stop_event = FALSE
    /\ sent = <<>>
    /\ handled = <<>>

store_vars == <<recent, important, archive, _event_counter, clock, nextId, ingested, capacity>>

BridgeCall(op, item, steps) == [id |-> item.n, op |-> op, score |-> 0, steps |-> steps]

\* the frames without the UI thread's: its call has returned
UiReturns == [t \in DOMAIN frames \ {"ui"} |-> frames[t]]

UiAt(pc) == "ui" \in DOMAIN frames /\ frames.ui.pc = pc

UiGoes(frame) == [t \in DOMAIN frames \cup {"ui"} |-> IF t = "ui" THEN frame ELSE frames[t]]

\* _emit_show(text), lines 51-57, called by the messenger's thread or through
\* show_now (159-160): put_nowait, and the message is dropped when the queue
\* is full.  Nothing in it looks at the stop flag: stop() only tells the
\* messenger to stop (line 139) and show_now stays callable, so a message may
\* be offered at any time, also after stop() has returned
EmitShow ==
    LET item == Item("_SHOW")
    IN  /\ Len(sent) < MaxItems
        /\ sent' = Append(sent, item)
        /\ _q' = IF QueueFull THEN _q ELSE Append(_q, item)
        /\ last' = BridgeCall("_emit_show", item, IF QueueFull THEN <<"full">> ELSE <<"put">>)
        /\ UNCHANGED <<store_vars, frames, _stop_event, handled>>

\* the call in progress on the UI thread, with one more step made
UiStep(step) == [frames.ui.call EXCEPT !.steps = Append(@, step)]

\* handle(event) on the UI thread, line 68: put_nowait; with the queue full the
\* call goes on to line 72
HandlePut ==
    LET item == Item("EVENT")
    IN  /\ "ui" \notin DOMAIN frames
        /\ Len(sent) < MaxItems
        /\ sent' = Append(sent, item)
        /\ IF QueueFull
           THEN /\ frames' = UiGoes([item |-> item,
                                     call |-> BridgeCall("handle", item, <<"full">>),
                                     pc |-> "get"])
                /\ last' = BridgeCall("handle", item, <<"full">>)
                /\ UNCHANGED _q
           ELSE /\ _q' = Append(_q, item)
                /\ last' = BridgeCall("handle", item, <<"put">>)
                /\ UNCHANGED frames
        /\ UNCHANGED <<store_vars, _stop_event, handled>>

\* line 72: get_nowait takes the oldest item; on an empty queue it raises Empty,
\* which line 74 swallows, and handle returns
HandleGet ==
    /\ UiAt("get")
    /\ IF _q # <<>>
       THEN /\ _q' = Tail(_q)
            /\ frames' = [frames EXCEPT !.ui.pc = "put", !.ui.call = UiStep("get")]
            /\ last' = UiStep("get")
       ELSE /\ frames' = UiReturns
            /\ last' = UiStep("empty")
            /\ UNCHANGED _q
    /\ UNCHANGED <<store_vars, _stop_event, sent, handled>>

\* line 73: put_nowait again; Full is swallowed by line 74, and handle returns
HandleRetry ==
    /\ UiAt("put")
    /\ _q' = IF QueueFull THEN _q ELSE Append(_q, frames.ui.item)
    /\ last' = UiStep(IF QueueFull THEN "full" ELSE "put")
    /\ frames' = UiReturns
    /\ UNCHANGED <<store_vars, _stop_event, sent, handled>>

WorkerAt(pc) == "worker" \in DOMAIN frames /\ frames.worker.pc = pc

\* line 79: the loop goes on while the stop flag is clear; the thread ends
\* when it is set
WorkerTest_IgnoresStop ==
    /\ WorkerAt("test")
    /\ frames' = [frames EXCEPT !.worker.pc = "get"]
    /\ UNCHANGED <<store_vars, last, bridge_vars>>

WorkerTest ==
    /\ WorkerAt("test")
    /\ frames' = [frames EXCEPT !.worker.pc = IF _stop_event THEN "done" ELSE "get"]
    /\ UNCHANGED <<store_vars, last, bridge_vars>>

\* line 81: get(timeout=0.5) takes the oldest item; with nothing queued it
\* times out and the loop continues at line 79
WorkerGet ==
    /\ WorkerAt("get")
    /\ IF _q # <<>>
       THEN /\ _q' = Tail(_q)
            /\ handled' = Append(handled, [item |-> Head(_q), stopped |-> _stop_event])
            /\ frames' = [frames EXCEPT !.worker.pc = "work"]
       ELSE /\ frames' = [frames EXCEPT !.worker.pc = "test"]
            /\ UNCHANGED <<_q, handled>>
    /\ UNCHANGED <<store_vars, last, _stop_event, sent>>

\* lines 85-122: the item is shown or forwarded to the agents, and the call
\* returns
WorkerWork ==
    /\ WorkerAt("work")
    /\ frames' = [frames EXCEPT !.worker.pc = "test"]
    /\ UNCHANGED <<store_vars, last, bridge_vars>>

\* the calls of stop() made so far: each has offered its _WAKE item
StopsMade == Cardinality({i \in 1..Len(sent) : sent[i].type = "_WAKE"})

\* stop(), lines 135-141: the flag is set and the messenger is told to stop;
\* the call may be made again, the flag is then set already
StopSet ==
    /\ "ui" \notin DOMAIN frames
    /\ StopsMade < MaxStops
    /\ _stop_event' = TRUE
    /\ frames' = UiGoes([item |-> Item("_WAKE"),
                         call |-> BridgeCall("stop", Item("_WAKE"), <<"set">>),
                         pc |-> "wake"])
    /\ last' = BridgeCall("stop", Item("_WAKE"), <<"set">>)
    /\ UNCHANGED <<store_vars, _q, sent, handled>>

\* lines 144-147: a dummy item to wake the worker, dropped when the queue is
\* full; the item is numbered as it is offered
StopWake ==
    LET call == [UiStep(IF QueueFull THEN "full" ELSE "put") EXCEPT !.id = Item("_WAKE").n]
    IN  /\ UiAt("wake")
        /\ sent' = Append(sent, Item("_WAKE"))
        /\ _q' = IF QueueFull THEN _q ELSE Append(_q, Item("_WAKE"))
        /\ frames' = [frames EXCEPT !.ui.pc = "join", !.ui.call = call]
        /\ last' = call
        /\ UNCHANGED <<store_vars, _stop_event, handled>>

\* lines 149-156: the join loop ends when the worker has ended or the timeout
\* has passed
StopReturn ==
    /\ UiAt("join")
    /\ frames' = UiReturns
    /\ last' = UiStep("join")
    /\ UNCHANGED <<store_vars, bridge_vars>>

Handle == HandlePut \/ HandleGet \/ HandleRetry

Worker == WorkerTest \/ WorkerGet \/ WorkerWork

Stop == StopSet \/ StopWake \/ StopReturn

SpecBridge == InitBridge /\ [][EmitShow \/ Handle \/ Worker \/ Stop]_vars

\* the worker is a running thread: its get times out after half a second and
\* the calls it makes for an item return
SpecBridgeLive == SpecBridge /\ WF_vars(Worker)

\* ---------------------------------------------------- reading the state

Range(seq) == {seq[i] : i \in 1..Len(seq)}

Ids(list) == {list[i].id : i \in 1..Len(list)}

ArchivedEvents == UNION {Range(archive[k].events) : k \in DOMAIN archive}

ArchivedIds == {e.id : e \in ArchivedEvents}

\* the step is a call of add / _decay_and_archive / _trim_important / clear
IsAddStep == nextId' = nextId + 1

IsSweepStep == last'.op = "sweep" /\ clock' = clock /\ nextId' = nextId

IsTrimStep == last'.op = "trim" /\ clock' = clock /\ nextId' = nextId

IsClearStep == last'.op = "clear" /\ clock' = clock /\ nextId' = nextId

\* after is before halved once per hour of age (exact: what a sweep keeps is
\* above 0.1, a whole number of units)
DecaysTo(before, after, age) ==
    LET h == age \div one_hour
    IN  h \in 0..12 /\ after * (2 ^ h) = before

\* the add call that returned last ran a sweep
InlineSweep == last.op = "add" /\ "sweep" \in Range(last.steps)

\* ---------------------------------------------------------------- claims

\* C1: after every add call (also one that runs the inline sweep) Recent holds
\* at most recent_max events and Important at most important_max entries.
C1_BoundedLayers ==
    /\ Len(recent) <= recent_max
    /\ Len(important) <= important_max

\* an add of a promoted event at counter 100, both layers full
C1_Witness ==
    /\ InlineSweep
    /\ Promoted(last.score)
    /\ _event_counter = SweepInterval
    /\ Len(recent) = recent_max
    /\ Len(important) = important_max

\* C2 as claimed: right after add returns, the event is in Important exactly
\* when its score is above the threshold.
C2_AsClaimed ==
    last.op = "add" =>
        /\ last.score <= importance_threshold => last.id \notin Ids(important)
        /\ last.score > importance_threshold => last.id \in Ids(important)

\* C2 amended: right after add returns, an event scored at or below the
\* threshold is not in Important; one scored above it is in Important exactly
\* when fewer than important_max of the entries held before the add had an
\* importance at least its score (otherwise that add's own trim discards it).
C2_Promotion ==
    [][IsAddStep =>
        LET s == last'.score
            atLeast == {i \in 1..Len(important) : important[i].importance >= s}
        IN  /\ s <= importance_threshold => last'.id \notin Ids(important')
            /\ s > importance_threshold =>
                   (last'.id \in Ids(important') <=> Cardinality(atLeast) < important_max)
    ]_vars

\* the new event took the place of a lesser entry of a full layer
C2_Witness ==
    /\ last.op = "add"
    /\ Promoted(last.score)
    /\ Len(important) = important_max
    /\ important_max > 1
    /\ important[1].id = last.id

\* C3: Recent is exactly the last min(recent_max, n) of the n events ingested
\* since the last clear, in ingestion order whatever their scores, and
\* get_recent(k) returns the last k of them, newest last, for 1 <= k <= that size.
C3_RecentIsTail ==
    LET n == Len(ingested)
        k == Min(recent_max, n)
    IN  /\ recent = [i \in 1..k |-> ingested[n - k + i]]
        /\ \A c \in 1..k : get_recent(c) = [i \in 1..c |-> ingested[n - c + i]]

\* a promoted event has left Recent while an unpromoted one is still in it
C3_Witness ==
    /\ last.op = "add"
    /\ Len(ingested) > recent_max
    /\ Len(recent) = recent_max
    /\ _score_importance(ingested[1].type, ingested[1].data) > importance_threshold
    /\ \E i \in 1..Len(recent) :
           _score_importance(recent[i].type, recent[i].data) <= importance_threshold

\* C4: the counter goes up by exactly one per add and is lowered only by clear;
\* an add runs the sweep exactly when the counter it has just incremented is a
\* multiple of 100, as the last part of the handler, on the list that already
\* holds the promoted and trimmed new entry; an add that runs no sweep decays
\* and archives nothing.
C4_CounterDrivesSweep ==
    [][ /\ _event_counter' < _event_counter =>
               (_event_counter' = 0 /\ recent' = <<>> /\ important' = <<>>)
        /\ ~IsAddStep => _event_counter' <= _event_counter
        /\ IsAddStep =>
             LET st == last'.steps
                 s == last'.score
                 swept == "sweep" \in Range(st)
                 atLeast == {i \in 1..Len(important) : important[i].importance >= s}
                 trimmedIn == s > importance_threshold /\ Cardinality(atLeast) < important_max
             IN  /\ _event_counter' = _event_counter + 1
                 /\ last'.op = "add"
                 /\ swept <=> (_event_counter' % 100 = 0)
                 /\ Cardinality({i \in 1..Len(st) : st[i] = "sweep"}) <= 1
                 /\ swept => /\ st[Len(st)] = "sweep"
                             /\ st[1] = "append"
                             /\ st[Len(st) - 1] = "count"
                             /\ last'.id \in Ids(important') <=> trimmedIn
                             /\ \A i \in 1..Len(important') :
                                   \/ /\ important'[i].id = last'.id
                                      /\ important'[i].importance = s
                                   \/ \E j \in 1..Len(important) :
                                        /\ important[j].id = important'[i].id
                                        /\ DecaysTo(important[j].importance,
                                                    important'[i].importance,
                                                    clock - important[j].timestamp)
                 /\ ~swept => /\ archive' = archive
                              /\ \A i \in 1..Len(important') :
                                     \/ important'[i].id = last'.id
                                     \/ important'[i] \in Range(important)
    ]_vars

\* an add at counter 100 whose sweep halved an older entry and kept the new one
C4_Witness ==
    /\ InlineSweep
    /\ _event_counter = SweepInterval
    /\ last.id \in Ids(important)
    /\ \E i \in 1..Len(important) :
           /\ important[i].id # last.id
           /\ important[i].importance < _score_importance(important[i].type, important[i].data)

\* the step ran a sweep: on its own, or as the last part of an add
SweepRan == IsSweepStep \/ (IsAddStep /\ "sweep" \in Range(last'.steps))

\* importance halved once per hour of age is still above the floor 0.1
StillAbove(importance, age) ==
    LET h == age \div one_hour
    IN  h \in 0..12 /\ importance > residual_floor * (2 ^ h)

IdSeq(list) == [i \in 1..Len(list) |-> list[i].id]

KeptBySweep(e) == StillAbove(e.importance, clock - e.timestamp)

\* the buckets that hold the event with serial number id
BucketsOf(arch, id) == {k \in DOMAIN arch : id \in Ids(arch[k].events)}

\* the Important list the sweep of the step works on: the list itself for a
\* call of _decay_and_archive on its own, the list after the promotion and the
\* trim of lines 71-73 for the sweep that ends an add
SweptList ==
    IF IsAddStep
    THEN LET event == ingested'[Len(ingested')]
             scored == [data |-> event.data, importance |-> last'.score,
                        timestamp |-> event.timestamp, type |-> event.type, id |-> event.id]
         IN  IF Promoted(last'.score)
             THEN _trim_important(Append(important, scored))
             ELSE important
    ELSE important

\* the Recent layer after the step when the sweep leaves it alone: as it was,
\* with the new event appended when the sweep ends an add
RecentUnswept ==
    IF IsAddStep THEN deque_append(recent, ingested'[Len(ingested')]) ELSE recent

\* what the sweep of the step did with the entry e it worked on: above 0.1 e
\* stays with the decayed importance; otherwise it is in the bucket of its date
\* when older than 86400 s and in neither Important nor the archive when not
\* (and, with everyLayer, not in Recent either)
SweepTreats(e, everyLayer) ==
    LET age == clock - e.timestamp
    IN  IF StillAbove(e.importance, age)
        THEN /\ \E j \in 1..Len(important') :
                   /\ important'[j].id = e.id
                   /\ DecaysTo(e.importance, important'[j].importance, age)
                   /\ important'[j] = [e EXCEPT !.importance = important'[j].importance]
             /\ BucketsOf(archive', e.id) = {}
        ELSE IF age > 86400
             THEN /\ e.id \notin Ids(important')
                  /\ BucketsOf(archive', e.id) = {date_key(e.timestamp)}
                  /\ e \in Range(archive'[date_key(e.timestamp)].events)
             ELSE /\ e.id \notin Ids(important')
                  /\ BucketsOf(archive', e.id) = {}
                  /\ everyLayer => e.id \notin Ids(recent')

\* C5 as claimed: a sweep at time now treats each Important entry on its own:
\* decayed = importance * 0.5^(age/3600); above 0.1 the entry stays with the
\* decayed importance; otherwise it goes to the archive bucket of its date when
\* older than 86400 s and is dropped from every layer, Recent too, when not;
\* after the sweep Important is exactly the kept entries.
C5_AsClaimed ==
    [][SweepRan =>
        /\ \A i \in 1..Len(SweptList) : SweepTreats(SweptList[i], TRUE)
        /\ IdSeq(important') = IdSeq(SelectSeq(SweptList, KeptBySweep))
    ]_vars

\* C5: every sweep, called on its own or run at the end of an add, treats each
\* Important entry on its own: decayed = importance * 0.5^(age/3600); above 0.1
\* the entry stays with the decayed importance; otherwise it goes to the
\* archive bucket of its date when older than 86400 s and is removed from
\* Important without being archived when not; after the sweep Important is
\* exactly the kept entries, in their order, and the sweep leaves the Recent
\* layer as it is.
C5_SweepRule ==
    [][SweepRan =>
        /\ \A i \in 1..Len(SweptList) : SweepTreats(SweptList[i], FALSE)
        /\ IdSeq(important') = IdSeq(SelectSeq(SweptList, KeptBySweep))
        /\ recent' = RecentUnswept
    ]_vars

\* a sweep at 25 h has worked on the two events of the run, both promoted: the
\* one of the first day is in the archive, the one 22 h old is in neither
\* Important nor the archive and still is in Recent
C5_Witness ==
    /\ last.op = "sweep"
    /\ clock = 25 * one_hour
    /\ Len(ingested) = 2
    /\ \A i \in 1..2 : Promoted(_score_importance(ingested[i].type, ingested[i].data))
    /\ ingested[1].timestamp = 0
    /\ BucketsOf(archive, ingested[1].id) = {date_key(0)}
    /\ ingested[2].timestamp = 3 * one_hour
    /\ ~StillAbove(_score_importance(ingested[2].type, ingested[2].data), 22 * one_hour)
    /\ ingested[2].id \notin Ids(important)
    /\ ingested[2].id \notin ArchivedIds
    /\ ingested[2].id \in Ids(recent)
    /\ important = <<>>

\* C6: no step raises the importance of an entry that stays in Important
\* (the clock never goes back), and a sweep run when the entry is at least
\* 3600 s old leaves it with at most half the importance it was promoted with.
C6_DecayMonotone ==
    [][\A i \in 1..Len(important) : \A j \in 1..Len(important') :
          important'[j].id = important[i].id =>
             /\ important'[j].importance <= important[i].importance
             /\ (SweepRan /\ clock' - important[i].timestamp >= 3600) =>
                    2 * important'[j].importance
                        <= _score_importance(important[i].type, important[i].data)
    ]_vars

\* an entry at least an hour old that a sweep has left below half of its
\* promotion score
C6_Witness ==
    /\ last.op = "sweep"
    /\ \E i \in 1..Len(important) :
           /\ clock - important[i].timestamp >= one_hour
           /\ 2 * important[i].importance
                  < _score_importance(important[i].type, important[i].data)

C7_Disjoint ==
    /\ Ids(important) \cap ArchivedIds = {}
    /\ \A id \in ArchivedIds :
           /\ Cardinality(BucketsOf(archive, id)) = 1
           /\ \A k \in BucketsOf(archive, id) :
                  Cardinality({i \in 1..Len(archive[k].events) : archive[k].events[i].id = id}) = 1

C7_OnlyBySweep ==
    \A id \in ArchivedIds' \ ArchivedIds :
        /\ SweepRan
        /\ id \in Ids(important)
        /\ id \notin Ids(important')

\* C7: no event record is in Important and in an archive bucket at once, none
\* is archived twice, and a record enters the archive only in a sweep that
\* takes it out of Important.
C7_ArchiveExclusive == []C7_Disjoint /\ [][C7_OnlyBySweep]_vars

\* an archived record, with Important holding other entries
C7_Witness ==
    /\ ArchivedIds # {}
    /\ important # <<>>
    /\ last.op \in {"sweep", "add"}

OldCount(key) == IF key \in DOMAIN archive THEN archive[key].event_count ELSE 0

C8_Gone ==
    /\ \A c \in 0..(Len(important) + 1) : Ids(get_important(c)) \cap ArchivedIds = {}
    /\ \A id \in Ids(important) \cup ArchivedIds : id < nextId

C8_Step ==
    /\ Ids(important') \subseteq (Ids(important) \cup {nextId})
    /\ ~IsClearStep =>
         /\ DOMAIN archive \subseteq DOMAIN archive'
         /\ \A key \in DOMAIN archive' :
              archive'[key].event_count - OldCount(key)
                  = Cardinality({id \in ArchivedIds' \ ArchivedIds :
                                     key \in BucketsOf(archive', id)})
         /\ \A id \in ArchivedIds' \ ArchivedIds :
              \E e \in ArchivedEvents' :
                  e.id = id /\ BucketsOf(archive', id) = {date_key(e.timestamp)}

\* C8: an archived event is in no get_important result, Important only ever
\* gains the record the current add creates (serial numbers are never reused),
\* so it never comes back; each archival raises the event_count of the bucket
\* of the event's date, and of no other, by one.
C8_ArchivalTerminal == []C8_Gone /\ [][C8_Step]_vars

\* two days' buckets, one of them holding two events
C8_Witness ==
    /\ last.op = "sweep"
    /\ Cardinality(DOMAIN archive) = 2
    /\ \E k \in DOMAIN archive : archive[k].event_count = 2

\* C9: every member of Important has a stored importance above 0.1.
C9_AboveFloor == \A i \in 1..Len(important) : important[i].importance > FP(100)

\* a sweep has left an entry just above the floor (0.9 / 8)
C9_Witness ==
    /\ last.op = "sweep"
    /\ \E i \in 1..Len(important) : important[i].importance = FP(900) \div 8

\* the list add hands to _trim_important: Important with the scored copy appended
Appended == Append(important, [data |-> ingested'[Len(ingested')].data, importance |-> last'.score,
                               timestamp |-> ingested'[Len(ingested')].timestamp,
                               type |-> ingested'[Len(ingested')].type,
                               id |-> last'.id])

PlaceIn(list, id) == CHOOSE i \in 1..Len(list) : list[i].id = id

\* x ranks before y: more important, or as important and earlier in the list
RanksBefore(list, x, y) ==
    \/ x.importance > y.importance
    \/ x.importance = y.importance /\ PlaceIn(list, x.id) < PlaceIn(list, y.id)

\* C10: over capacity, _trim_important keeps exactly the important_max entries
\* of highest importance, earlier entries winning ties, in that order, drops
\* the others without archiving them and changes no bucket; at or under
\* capacity it removes nothing.
C10_TrimKeepsTop ==
    [][ /\ IsTrimStep => (important' = important /\ archive' = archive)
        /\ (IsAddStep /\ "trim" \in Range(last'.steps) /\ "sweep" \notin Range(last'.steps)) =>
             IF Len(Appended) > important_max
             THEN /\ Len(important') = important_max
                  /\ Range(important') \subseteq Range(Appended)
                  /\ \A a \in 1..Len(important') : \A b \in 1..Len(important') :
                         a < b => RanksBefore(Appended, important'[a], important'[b])
                  /\ \A x \in Range(Appended) \ Range(important') :
                         /\ \A y \in Range(important') : RanksBefore(Appended, y, x)
                         /\ BucketsOf(archive', x.id) = {}
                  /\ archive' = archive
             ELSE important' = Appended /\ archive' = archive
    ]_vars

\* a promoted event that tied with a full layer and was discarded
C10_Witness ==
    /\ last.op = "add"
    /\ Promoted(last.score)
    /\ "sweep" \notin Range(last.steps)
    /\ Len(important) = important_max
    /\ last.id \notin Ids(important)
    /\ \A i \in 1..Len(important) : important[i].importance = last.score

\* C11: _trim_important is idempotent: once it has run, running it again, with
\* no add in between, leaves Important with the same contents in the same order.
C11_TrimIdempotent == last.op = "trim" => _trim_important(important) = important

\* a trim has cut an over-capacity list down and reordered it
C11_Witness ==
    /\ last.op = "trim"
    /\ Len(important) = important_max
    /\ nextId > important_max + 1
    /\ \E i \in 1..Len(important) : \E j \in 1..Len(important) :
           i < j /\ important[i].id > important[j].id

\* the event of the add call that returned last
LastEvent == ingested[Len(ingested)]

\* the text has a word of more than two characters that starts with a capital
HasCapitalizedWord(text) ==
    \E i \in 1..Len(Split(text)) :
        Len(Split(text)[i]) > 2 /\ IsUpper(CharAt(Split(text)[i], 1))

HasDigit(text) == \E i \in 1..Len(text) : IsDigit(CharAt(text, i))

\* the boosts of section 4.2, each decided on the text as it was given
\* (keywords matched without regard to case)
ClaimedBoost(kind, data) ==
    LET text == Get(data, "text", "")
        summary == Get(data, "summary", "")
    IN  IF kind = "chat"
        THEN (IF AnyWordIn(emphatic_words, Lower(text)) THEN FP(200) ELSE 0)
           + (IF HasCapitalizedWord(text) THEN FP(150) ELSE 0)
           + (IF HasDigit(text) THEN FP(100) ELSE 0)
           + (IF Contains(text, "?") THEN FP(150) ELSE 0)
        ELSE IF kind = "vision"
             THEN (IF AnyWordIn(vision_words, Lower(summary)) THEN FP(200) ELSE 0)
             ELSE 0

ClaimedBase(kind) ==
    CASE kind = "chat" -> FP(900)
      [] kind = "vision" -> FP(600)
      [] kind = "app_activity" -> FP(300)
      [] kind = "location" -> FP(500)
      [] kind = "inventory" -> FP(400)
      [] kind = "skill" -> FP(800)
      [] kind = "preference" -> FP(900)
      [] OTHER -> FP(400)

\* C12 as claimed: the score add computes is min(1.0, base(kind) + the boosts
\* that apply to the payload), the capitalized-word boost among them, and lies
\* in [0, 1].
C12_AsClaimed ==
    last.op = "add" =>
        /\ last.score = Min(FP(1000), ClaimedBase(LastEvent.type)
                                          + ClaimedBoost(LastEvent.type, LastEvent.data))
        /\ last.score >= 0
        /\ last.score <= FP(1000)

\* C13 as claimed: a chat whose text has a capitalized word longer than two
\* characters and no other trigger scores min(1.0, 0.9 + 0.15), not 0.9.
C13_AsClaimed ==
    ( /\ last.op = "add"
      /\ LastEvent.type = "chat"
      /\ HasCapitalizedWord(Get(LastEvent.data, "text", ""))
      /\ ~AnyWordIn(emphatic_words, Lower(Get(LastEvent.data, "text", "")))
      /\ ~HasDigit(Get(LastEvent.data, "text", ""))
      /\ ~Contains(Get(LastEvent.data, "text", ""), "?") )
    => last.score = Min(FP(1000), FP(900) + FP(150))

FavoriteColor == "remember my favorite color is blue?"

LastText == Get(LastEvent.data, "text", "")

\* the entry of the last add is in Important, or the layer is full of entries
\* at least as important (the trim of that add discarded it, cf. C2)
LastKeptOrOutranked ==
    \/ \E i \in 1..Len(important) :
           important[i].id = last.id /\ important[i].importance = last.score
    \/ /\ Len(important) = important_max
       /\ \A i \in 1..Len(important) : important[i].importance >= last.score

\* C14 as claimed: the chat "remember my favorite color is blue?" scores above
\* the chat "ok", scores above 0.4 and is promoted by add, while the chat "ok"
\* does not score above 0.4 and is not promoted.
C14_AsClaimed ==
    (last.op = "add" /\ LastEvent.type = "chat") =>
        /\ LastText = FavoriteColor =>
               /\ last.score > _score_importance("chat", [text |-> "ok", who |-> "user"])
               /\ last.score > importance_threshold
               /\ "promote" \in Range(last.steps)
        /\ LastText = "ok" =>
               /\ last.score <= importance_threshold
               /\ "promote" \notin Range(last.steps)
               /\ last.id \notin Ids(important)

\* C14 amended: the chat "remember my favorite color is blue?" scores 1.0 and
\* the chat "ok" scores 0.9, so the first scores strictly higher; both score
\* above 0.4 and both are promoted by add (each is in Important when add
\* returns unless that add's trim discarded it from a full layer).
C14_BothPromoted ==
    (last.op = "add" /\ LastEvent.type = "chat") =>
        /\ LastText = FavoriteColor => last.score = FP(1000)
        /\ LastText = "ok" => last.score = FP(900)
        /\ LastText \in {FavoriteColor, "ok"} =>
               /\ last.score > FP(400)
               /\ "promote" \in Range(last.steps)
               /\ LastKeptOrOutranked

\* the chat "ok" has just been promoted next to the favorite-color chat
C14_Witness ==
    /\ last.op = "add"
    /\ LastText = "ok"
    /\ last.id \in Ids(important)
    /\ \E i \in 1..Len(important) :
           /\ Get(important[i].data, "text", "") = FavoriteColor
           /\ important[i].importance = FP(1000)
           /\ important[i].importance > last.score

\* C15: every event added through add_chat, whatever its text and who, scores
\* above 0.4, and that add appends its scored copy to Important (the list then
\* handed to the trim): a layer with room holds it as its last entry afterwards.
C15_ChatAlwaysImportant ==
    [][IsAddStep =>
        /\ last'.score > FP(400)
        /\ "promote" \in Range(last'.steps)
        /\ IF Len(important) < important_max
           THEN important' = Appended
           ELSE /\ Len(important') = important_max
                /\ Range(important') \subseteq Range(Appended)
    ]_vars

\* the pet's chat with an empty text is in Important
C15_Witness ==
    /\ last.op = "add"
    /\ LastEvent.type = "chat"
    /\ LastEvent.data = [text |-> "", who |-> "pet"]
    /\ important # <<>>
    /\ important[Len(important)].id = last.id
    /\ important[Len(important)].importance = FP(900)

\* the values of max_items asked for
SummarySizes == 0..20

\* the number of lines of a text: one more than its line breaks, none if empty
LineCount(text) ==
    IF Len(text) = 0 THEN 0
    ELSE 1 + Cardinality({i \in 1..Len(text) : CharAt(text, i) = "\n"})

\* C16 as claimed: for every max_lines N >= 0 the digest get_context_summary(N)
\* has at most N lines, headers and blank separators counted.
C16_AsClaimed ==
    \A n \in SummarySizes : LineCount(get_context_summary(n)) <= n

HeaderRank(line) ==
    IF line = RecentHeader THEN 1
    ELSE IF line = ImportantHeader THEN 2
    ELSE IF line = ArchiveHeader THEN 3
    ELSE 0

StoreEmpty == recent = <<>> /\ important = <<>> /\ DOMAIN archive = {}

\* C17: in the digest the section headers come in the order RECENT, IMPORTANT,
\* ARCHIVE, each at most once and only when its layer is not empty, whatever
\* max_lines is; the digest of the empty store is the empty string.  (A header
\* is a line the digest writes as one; the lines are those it joins.)
C17_HeadersInOrder ==
    \A n \in SummarySizes :
        LET L == shown_lines(n)
        IN  /\ \A i \in 1..Len(L) : \A j \in 1..Len(L) :
                   (i < j /\ HeaderRank(L[i]) > 0 /\ HeaderRank(L[j]) > 0)
                       => HeaderRank(L[i]) < HeaderRank(L[j])
            /\ RecentHeader \in Range(L) => recent # <<>>
            /\ ImportantHeader \in Range(L) => important # <<>>
            /\ ArchiveHeader \in Range(L) => DOMAIN archive # {}
            /\ StoreEmpty => get_context_summary(n) = ""

\* all three layers hold something and the digest has the three headers
C17_Witness ==
    /\ last.op = "add"
    /\ recent # <<>> /\ important # <<>> /\ DOMAIN archive # {}
    /\ {RecentHeader, ImportantHeader, ArchiveHeader} \subseteq Range(shown_lines(20))

\* the place of entry i of Important in descending order of importance,
\* earlier entries first among equals
RankOf(i) ==
    Cardinality({j \in 1..Len(important) :
                    \/ important[j].importance > important[i].importance
                    \/ important[j].importance = important[i].importance /\ j < i})

Ranked(p) == important[CHOOSE i \in 1..Len(important) : RankOf(i) = p - 1]

\* the day of a bucket, counted from its first event's timestamp
DayOf(key) == archive[key].timestamp \div one_day

\* the bucket with exactly q - 1 buckets of later days
DateRanked(q) ==
    CHOOSE k \in DOMAIN archive :
        Cardinality({o \in DOMAIN archive : DayOf(o) > DayOf(k)}) = q - 1

\* C18: when max_lines truncates nothing, the digest is: the RECENT header and
\* the last min(5, len) Recent events, oldest first; then a blank line, the
\* IMPORTANT header and the min(5, len) Important entries of highest current
\* importance, highest first; then a blank line, the ARCHIVE header and the
\* min(3, number of buckets) latest date keys, latest first, each with its
\* bucket's event_count; a section of an empty layer is left out.
C18_SectionContents ==
    \A n \in SummarySizes : n >= Len(lines) =>
        LET L == shown_lines(n)
            r == Min(5, Len(recent))
            m == Min(5, Len(important))
            a == Min(3, Cardinality(DOMAIN archive))
            iOff == IF r > 0 THEN r + 1 ELSE 0
            aOff == iOff + (IF m > 0 THEN m + 2 ELSE 0)
        IN  /\ Len(L) = aOff + (IF a > 0 THEN a + 2 ELSE 0)
            /\ r > 0 =>
                 /\ L[1] = RecentHeader
                 /\ \A i \in 1..r : L[1 + i] = _format_event(recent[Len(recent) - r + i])
            /\ m > 0 =>
                 /\ L[iOff + 1] = ""
                 /\ L[iOff + 2] = ImportantHeader
                 /\ \A q \in 1..m : L[iOff + 2 + q] = _format_event(Ranked(q))
            /\ a > 0 =>
                 /\ L[aOff + 1] = ""
                 /\ L[aOff + 2] = ArchiveHeader
                 /\ \A q \in 1..a :
                        L[aOff + 2 + q]
                            = "[" \o DateRanked(q) \o "] "
                                  \o ToStr(archive[DateRanked(q)].event_count) \o " events"

\* more than five Recent events, more than five Important entries of several
\* importances and more than three buckets, the latest holding two events
C18_Witness ==
    /\ last.op = "add"
    /\ Len(recent) > 5
    /\ Len(important) > 5
    /\ Cardinality({important[i].importance : i \in 1..Len(important)}) > 2
    /\ Cardinality(DOMAIN archive) > 3
    /\ archive[DateRanked(1)].event_count = 2
    /\ Len(lines) = 18

\* a new store took 19 app_activity events and then one chat with an emphatic
\* keyword and a question mark
C19_Scenario ==
    /\ last.op = "add"
    /\ Len(ingested) = 20
    /\ _event_counter = 20
    /\ \A i \in 1..19 : ingested[i].type = "app_activity"
    /\ ingested[20].type = "chat"
    /\ AnyWordIn(emphatic_words, Lower(Get(ingested[20].data, "text", "")))
    /\ Contains(Get(ingested[20].data, "text", ""), "?")

\* line i of L is in the section of header: after it, before the next blank line
InSection(L, header, i) ==
    \E h \in 1..Len(L) :
        /\ L[h] = header
        /\ h < i
        /\ \A k \in (h + 1)..i : L[k] # ""

\* C19 as claimed: after that scenario get_context_summary() has the chat line
\* under IMPORTANT, the lines of the 5 most recent app_activity events under
\* RECENT, and no ARCHIVE section.
C19_AsClaimed ==
    C19_Scenario =>
        LET L == shown_lines(default_max_items)
        IN  /\ \E i \in 1..Len(L) :
                   L[i] = _format_event(ingested[20]) /\ InSection(L, ImportantHeader, i)
            /\ \A e \in 15..19 :
                   \E i \in 1..Len(L) :
                       L[i] = _format_event(ingested[e]) /\ InSection(L, RecentHeader, i)
            /\ ArchiveHeader \notin Range(L)

\* C19 amended: after that scenario get_context_summary() is, in this order:
\* the RECENT header, the lines of the 4 most recent app_activity events, the
\* chat line (the chat is the most recent of the last 5 events), a blank line,
\* the IMPORTANT header and the chat line again; there is no ARCHIVE section.
C19_Digest ==
    C19_Scenario =>
        /\ shown_lines(default_max_items)
               = <<RecentHeader,
                   _format_event(ingested[16]), _format_event(ingested[17]),
                   _format_event(ingested[18]), _format_event(ingested[19]),
                   _format_event(ingested[20]),
                   "", ImportantHeader, _format_event(ingested[20])>>
        /\ ArchiveHeader \notin Range(shown_lines(default_max_items))
        /\ LineCount(get_context_summary(default_max_items)) = 9

\* the scenario has run: Recent holds the twenty events, Important the chat
C19_Witness ==
    /\ C19_Scenario
    /\ Len(recent) = 20
    /\ Len(important) = 1
    /\ important[1].id = 20
    /\ _format_event(ingested[15]) = "[using] app15 (dev)"
    /\ _format_event(ingested[20]) = "user: remember this?"

\* the number of places at which w occurs in text
Occurrences(text, w) ==
    Cardinality({i \in 1..(Len(text) - Len(w) + 1) : SubSeq(text, i, i + Len(w) - 1) = w})

\* "{who}: {text}" of a chat event
ChatFragment(e) == Get(e.data, "who", "") \o ": " \o Get(e.data, "text", "")

\* C20: when two chat events with the same who and text and the same local
\* date have both been archived, they are in that date's bucket, whose
\* event_count counts both (it is 2 when they are all the bucket holds) and
\* whose summary contains the "{who}: {text}" fragment exactly once.
C20_DuplicateOnce ==
    \A e1 \in ArchivedEvents : \A e2 \in ArchivedEvents :
        ( /\ e1.id < e2.id
          /\ e1.type = "chat" /\ e2.type = "chat"
          /\ e1.data = e2.data
          /\ date_key(e1.timestamp) = date_key(e2.timestamp) )
        => LET key == date_key(e1.timestamp)
           IN  /\ key \in DOMAIN archive
               /\ {e1, e2} \subseteq Range(archive[key].events)
               /\ archive[key].event_count >= 2
               /\ Len(archive[key].events) = 2 => archive[key].event_count = 2
               /\ Occurrences(archive[key].summary, ChatFragment(e1)) = 1

\* a day's bucket holds exactly two chats of the same who and text
C20_Witness ==
    /\ last.op \in {"sweep", "add"}
    /\ \E key \in DOMAIN archive :
           /\ Len(archive[key].events) = 2
           /\ archive[key].events[1].type = "chat"
           /\ archive[key].events[2].type = "chat"
           /\ archive[key].events[1].data = archive[key].events[2].data
           /\ archive[key].events[1].id # archive[key].events[2].id
           /\ archive[key].event_count = 2
           /\ archive[key].summary = "user: ok; "

ReadOps ==
    {"get_context_summary", "get_recent", "get_important", "get_archive_for_date",
     "get_memory_stats"}

\* what the accessor called last returns when it is called again now
CalledAgain == Returned(last.op, last.arg)

C21_SameAgain == last.op \in ReadOps => last.result = CalledAgain

C21_StoreUntouched ==
    (last'.op \in ReadOps /\ last' # last) =>
        /\ recent' = recent
        /\ important' = important
        /\ archive' = archive
        /\ _event_counter' = _event_counter

\* C21: a call of get_context_summary, get_recent, get_important,
\* get_archive_for_date or get_memory_stats leaves Recent, Important (members,
\* order and importances), the archive and _event_counter as they were, and
\* the same call made again on the state it leaves returns an equal result.
C21_ReadOnly == []C21_SameAgain /\ [][C21_StoreUntouched]_vars

\* get_important has returned a sorted list while the layer itself is not
\* sorted and the archive holds earlier days
C21_Witness ==
    /\ last.op = "get_important"
    /\ last.arg = 10
    /\ Len(last.result) > 2
    /\ last.result # important
    /\ DOMAIN archive # {}

\* C22 as claimed: add never fails. Whatever the kind and the payload, values
\* that are not strings included, the call returns normally, and it has then
\* appended the event to Recent and incremented the counter.
C22_AsClaimed ==
    last.op = "add" =>
        /\ "raise" \notin Range(last.steps)
        /\ last.id \in Ids(recent)
        /\ "count" \in Range(last.steps)

\* C23 as claimed: get_context_summary never raises, whatever the store holds,
\* events with partial payloads and a location of fewer than three components
\* included.
C23_AsClaimed == last.op = "get_context_summary" => "raise" \notin Range(last.steps)

UnknownKind(e) == e.type \notin DOMAIN type_scores

\* "[kind] " and the first 60 characters of the payload as Python prints it
DefaultRendering(e) ==
    "[" \o e.type \o "] "
        \o (IF DOMAIN e.data = {} THEN "{}"
            ELSE "{'sky': 'cloudy with a chance of rain in the evening and fog")

\* line is one of the lines of text
ShownAsLine(text, line) == Contains("\n" \o text \o "\n", "\n" \o line \o "\n")

LastFive == SliceFrom(recent, 0 - 5)

\* C26: an event whose kind is not in the table is accepted by add (the call
\* runs to the end and the event is in Recent), scores exactly 0.4 and is not
\* promoted, and the digest shows it as "[kind] " followed by the first 60
\* characters of the stringified payload.
C26_UnknownKind ==
    /\ (last.op = "add" /\ UnknownKind(LastEvent)) =>
           /\ last.steps = <<"append", "score", "count">>
           /\ last.id \in Ids(recent)
           /\ last.score = FP(400)
           /\ last.id \notin Ids(important)
    /\ \A i \in 1..Len(important) : ~UnknownKind(important[i])
    /\ (last.op = "get_context_summary" /\ last.steps = <<>> /\ last.arg = default_max_items) =>
           \A i \in 1..Len(LastFive) :
               UnknownKind(LastFive[i]) => ShownAsLine(last.result, DefaultRendering(LastFive[i]))

\* a digest was returned that shows both weather events, one of them cut at
\* 60 characters
C26_Witness ==
    /\ last.op = "get_context_summary" /\ last.steps = <<>> /\ last.arg = default_max_items
    /\ \E i, j \in 1..Len(LastFive) :
           /\ LastFive[i].type = "weather" /\ DOMAIN LastFive[i].data = {}
           /\ LastFive[j].type = "weather" /\ DOMAIN LastFive[j].data = {"sky"}
           /\ Len(StrDict(LastFive[j].data)) > 60
           /\ Len(DefaultRendering(LastFive[j])) = 70
    /\ _event_counter = Len(ingested)

\* C24 as claimed: a store constructed with recent_max <= 0 or
\* important_max <= 0 does not exist: the constructor has raised, and no add
\* has run on such an instance.
C24_AsClaimed ==
    (capacity.recent_max <= 0 \/ capacity.important_max <= 0) =>
        /\ last.op = "__init__"
        /\ "raise" \in Range(last.steps)

C25_InRange ==
    \A i \in 1..Len(important) :
        important[i].importance >= 0 /\ important[i].importance <= FP(1000)

C25_NoRaise ==
    SweepRan =>
        \A i \in 1..Len(important) : \A j \in 1..Len(important') :
            important'[j].id = important[i].id =>
                important'[j].importance <= important[i].importance

\* C25 as claimed: in every reachable state every Important entry's importance
\* is within [0, 1], and no sweep raises an entry's importance, also when the
\* clock the sweep reads is earlier than the entry's timestamp.
C25_AsClaimed == []C25_InRange /\ [][C25_NoRaise]_vars

\* a clear has been called on a store that had taken events
Cleared == nextId > Len(ingested) + 1

\* the add calls made since the clear, as a script
CallsSinceClear ==
    [i \in 1..Len(ingested) |->
        [data |-> ingested[i].data, type |-> ingested[i].type, now |-> ingested[i].timestamp,
         op |-> "add"]]

\* a store constructed with the same configuration that was given the same
\* calls (its events numbered as the calls were)
FreshStoreAfter ==
    ReplayAll([NewStore EXCEPT !.nextId = nextId - Len(ingested)], CallsSinceClear)

\* C27: after clear() the three layers are empty and _event_counter is 0, and
\* from then on the store is the one a freshly constructed store would be after
\* the same add calls: same Recent, Important, archive and counter, and the
\* next sweep runs in the 100th add after the clear and in no earlier one.
C27_ClearIsFresh ==
    /\ last.op = "clear" => StoreEmpty /\ _event_counter = 0
    /\ Cleared =>
           /\ recent = FreshStoreAfter.recent
           /\ important = FreshStoreAfter.important
           /\ archive = FreshStoreAfter.archive
           /\ _event_counter = FreshStoreAfter._event_counter
           /\ _event_counter = Len(ingested)
           /\ last.op = "add" =>
                  ("sweep" \in Range(last.steps) <=> Len(ingested) = SweepInterval)

\* the 100th add after a clear has run its sweep, on a store that held
\* Important entries and an archive before the clear
C27_Witness ==
    /\ Cleared
    /\ last.op = "add"
    /\ "sweep" \in Range(last.steps)
    /\ Len(ingested) = SweepInterval
    /\ nextId > SweepInterval + 10
    /\ important # <<>>
    /\ DOMAIN archive = {}

\* the calendar date (UTC) of the instants the clock reads
CalendarDate(ts) ==
    CASE ts < one_day -> "1970-01-01"
      [] ts >= one_day /\ ts < 2 * one_day -> "1970-01-02"
      [] ts >= 2 * one_day -> "1970-01-03"

C28_Buckets ==
    \A d \in DOMAIN archive :
        /\ archive[d].event_count = Len(archive[d].events)
        /\ archive[d].event_count >= 1
        /\ \A i \in 1..Len(archive[d].events) : CalendarDate(archive[d].events[i].timestamp) = d
        /\ archive[d].timestamp = archive[d].events[1].timestamp

C28_Grows ==
    ~IsClearStep =>
        \A d \in DOMAIN archive :
            /\ d \in DOMAIN archive'
            /\ archive'[d].event_count >= archive[d].event_count
            /\ SubSeq(archive'[d].events, 1, Len(archive[d].events)) = archive[d].events

\* C28: between clear calls the archive only grows. No step other than clear
\* removes a bucket or lowers its event_count (the raw events it holds stay,
\* in order); in every state a bucket's event_count is the number of raw
\* events it holds, every one of them has the calendar date the bucket is
\* keyed by, and the bucket's timestamp is that of the first event archived
\* into it.
C28_ArchiveGrows == []C28_Buckets /\ [][C28_Grows]_vars

\* a bucket holds two events of the same day archived with different
\* timestamps, and another day has a bucket too
C28_Witness ==
    /\ Cardinality(DOMAIN archive) >= 2
    /\ \E d \in DOMAIN archive :
           /\ archive[d].event_count = 2
           /\ archive[d].events[2].timestamp > archive[d].events[1].timestamp

\* what get_important(count) must return: min(count, len) distinct entries of
\* Important, in descending order of importance, none outranked by an entry
\* left out
TopOfImportant(r, count) ==
    /\ Len(r) = Min(count, Len(important))
    /\ \A i \in 1..Len(r) : \E k \in 1..Len(important) : r[i] = important[k]
    /\ Cardinality(Ids(r)) = Len(r)
    /\ \A i \in 1..(Len(r) - 1) : r[i].importance >= r[i + 1].importance
    /\ \A k \in 1..Len(important) :
           important[k].id \notin Ids(r) =>
               \A i \in 1..Len(r) : important[k].importance <= r[i].importance

\* C29: for every count >= 0, get_important(count) returns exactly
\* min(count, len(Important)) entries, sorted by importance in descending
\* order, and every entry it leaves out has an importance no greater than that
\* of every entry it returns.
C29_TopCount ==
    /\ \A count \in 0..(Len(important) + 1) : TopOfImportant(get_important(count), count)
    /\ last.op = "get_important" => TopOfImportant(last.result, last.arg)

\* get_important(2) has returned two of at least five entries held in another
\* order, and an entry left out ties with one returned
C29_Witness ==
    /\ last.op = "get_important"
    /\ last.arg = 2
    /\ Len(important) >= 5
    /\ Len(last.result) = 2
    /\ last.result # SliceTo(important, 2)
    /\ \E k \in 1..Len(important) :
           /\ important[k].id \notin Ids(last.result)
           /\ important[k].importance = last.result[2].importance

\* C30 as claimed: while one thread runs add and the sweep it triggers, a
\* get_important or get_context_summary call made by another thread without a
\* lock never finds an event that is in an archive bucket and still in the
\* Important layer: the list the reader is about to copy (lines 221 and 268)
\* holds no event that an archive bucket holds.
C30_AsClaimed ==
    At("reader", "snap") => Ids(Held("reader")) \cap ArchivedIds = {}

\* C31 as claimed: for every max_lines >= 0, every section header in the
\* returned digest is followed by at least one entry line of its section:
\* truncation leaves no header without entries.
C31_AsClaimed ==
    \A n \in SummarySizes :
        LET L == shown_lines(n)
        IN  \A i \in 1..Len(L) :
                HeaderRank(L[i]) > 0 =>
                    /\ i < Len(L)
                    /\ L[i + 1] # ""
                    /\ HeaderRank(L[i + 1]) = 0

RECURSIVE DistinctFragments(_, _, _)
\* the fragments of the chats among events from place i on that differ from
\* every fragment in seen, each once, in order
DistinctFragments(events, i, seen) ==
    IF i > Len(events) THEN seen
    ELSE IF events[i].type = "chat" /\ \A k \in 1..Len(seen) : seen[k] # ChatFragment(events[i])
         THEN DistinctFragments(events, i + 1, Append(seen, ChatFragment(events[i])))
         ELSE DistinctFragments(events, i + 1, seen)

RECURSIVE Terminated(_, _)
\* every item of items followed by sep: the text that sep splits into items
Terminated(items, sep) ==
    IF Len(items) = 0 THEN ""
    ELSE items[1] \o sep \o Terminated(SubSeq(items, 2, Len(items)), sep)

\* C32 as claimed: the rolling summary of every bucket, split on "; ", lists
\* exactly the distinct "{who}: {text[:50]}" fragments of the chats archived
\* into the bucket, each once and in the order they were first archived; a
\* fragment that differs from all earlier ones is appended also when an
\* earlier fragment contains it.
C32_AsClaimed ==
    \A d \in DOMAIN archive :
        archive[d].summary = Terminated(DistinctFragments(archive[d].events, 1, <<>>), "; ")

\* the decayed score of entry e at the present clock is 0.1 or below
Stale(e) == ~KeptBySweep(e)

\* the add call of this step ran the sweep
AddSwept == IsAddStep /\ "sweep" \in Range(last'.steps)

\* the add call of this step returned without running the sweep
AddOnly == IsAddStep /\ "sweep" \notin Range(last'.steps)

\* a stale entry is what the two readers return, at its stored importance
C33_StillRead ==
    \A i \in 1..Len(important) :
        Stale(important[i]) =>
            /\ RankOf(i) < 10 => important[i] \in Range(get_important(10))
            /\ RankOf(i) < 5 => _format_event(important[i]) \in Range(ImportantSection)

\* every add counts one, and runs the sweep when the count reaches a multiple
\* of 100: the 100th add after any moment has run one; that sweep removes
\* every entry that was stale before the call
C33_Removed ==
    /\ IsAddStep => /\ _event_counter' = _event_counter + 1
                    /\ AddSwept <=> _event_counter' % SweepInterval = 0
    /\ AddSwept => \A i \in 1..Len(important) :
                       Stale(important[i]) => important[i].id \notin Ids(important')

           /\ ingested[Len(ingested) - 1].id > ingested[i].id
           /\ ingested[i].id \notin Ids(important)

\* the age at which every score a promoted event can have (at most 1.0) has
\* decayed to 0.1 or below, and the age up to which nothing is archived
InDropWindow(age) == age >= 4 * one_hour /\ age <= 24 * one_hour

\* a sweep that runs while an entry's age is in the window leaves it in
\* neither Important nor the archive
C34_WindowDrops ==
    SweepRan =>
        \A i \in 1..Len(important') : ~InDropWindow(clock' - important'[i].timestamp)

\* an event enters the archive only in a sweep, from Important, at an age
\* above 24 hours
C34_ArchivedOld ==
    \A id \in ArchivedIds' \ ArchivedIds :
        /\ SweepRan
        /\ \E i \in 1..Len(important) :
               /\ important[i].id = id
               /\ clock' - important[i].timestamp > 24 * one_hour

\* C34 as claimed: a promoted event reaches the archive only if no sweep runs
\* while its age is between 4 and 24 hours; a sweep in that window finds its
\* decayed score at or below 0.1 and drops it from every layer.
C34_AsClaimed ==
    [][ /\ C34_WindowDrops
        /\ C34_ArchivedOld
        /\ SweepRan => \A i \in 1..Len(important) :
               InDropWindow(clock' - important[i].timestamp) =>
                   /\ important[i].id \notin Ids(important')
                   /\ important[i].id \notin ArchivedIds'
                   /\ important[i].id \notin Ids(recent')
      ]_vars

\* C34: as claimed for the Important layer and the archive: a sweep that runs
\* while an entry's age is between 4 and 24 hours removes it from Important
\* and archives nothing of it, and only an entry still in Important at an age
\* above 24 hours is archived.  The sweep does not touch Recent.
C34_DropWindow ==
    [][ /\ C34_WindowDrops
        /\ C34_ArchivedOld
        /\ SweepRan => \A i \in 1..Len(important) :
               InDropWindow(clock' - important[i].timestamp) =>
                   /\ important[i].id \notin Ids(important')
                   /\ important[i].id \notin ArchivedIds'
        /\ SweepRan => recent' = IF IsAddStep THEN deque_append(recent, ingested'[Len(ingested')])
                                  ELSE recent
      ]_vars

\* a sweep has run on promoted events exactly 24 hours old, none of which had
\* been trimmed away: they are in neither Important nor the archive, and the
\* last of them still is in Recent
C34_Witness ==
    /\ last.op = "sweep"
    /\ ingested # <<>>
    /\ \A i \in 1..Len(ingested) :
           /\ Promoted(_score_importance(ingested[i].type, ingested[i].data))
           /\ clock - ingested[i].timestamp = 24 * one_hour
    /\ Len(ingested) <= important_max
    /\ important = <<>>
    /\ DOMAIN archive = {}
    /\ ingested[Len(ingested)].id \in Ids(recent)


\* no add call is in progress
Quiescent == DOMAIN frames = {}

\* what every serial order of the calls gives once they have returned: each
\* call counted once, and the events of the last calls in Recent
C35_Serial ==
    Quiescent =>
        /\ _event_counter = Len(ingested)
        /\ Ids(recent) = {ingested[i].id : i \in (Len(ingested) - recent_max + 1)..Len(ingested)}

\* the step is line 168 of thread t
IsAssignStep(t) ==
    /\ t \in DOMAIN frames
    /\ frames[t].pc = "assign"
    /\ t \notin DOMAIN frames'

\* an entry that is in Important when a sweep replaces the list, and is no
\* older than that sweep's reading of the clock, is in the list that replaces it
C35_NotLost ==
    \A t \in Writers :
        IsAssignStep(t) =>
            \A k \in 1..Len(important) :
                important[k].timestamp >= frames[t].now =>
                    important[k].id \in Ids(important')

\* C35 as claimed: two threads that call add concurrently leave the state some
\* serial order of the two calls would leave: both events in Recent, the
\* counter advanced by exactly two, and an entry appended to Important by one
\* thread while the other is inside a sweep is not lost when that sweep
\* replaces the Important list.
C35_AsClaimed == []C35_Serial /\ [][C35_NotLost]_vars

\* the two halves of C35 on their own
C35_CounterSerial == Quiescent => _event_counter = Len(ingested)

C35_AppendKept == [][C35_NotLost]_vars


\* the last call was an add that raised
AddRaised == last.op = "add" /\ "raise" \in Range(last.steps)

\* Recent holds as many events as were counted, up to the capacity
C36_LenIsCount == Len(recent) = Min(_event_counter, default_recent_max)

\* C36 as claimed: in every reachable state len(Recent) = min(_event_counter,
\* recent_max); this holds after an add that raised while scoring a malformed
\* payload too, a failed add leaving Recent and the counter as they were.
C36_AsClaimed ==
    /\ []C36_LenIsCount
    /\ [][(IsAddStep /\ "raise" \in Range(last'.steps)) =>
              (recent' = recent /\ _event_counter' = _event_counter)]_vars


\* the last n elements of a list
LastOf(list, n) == SubSeq(list, Len(list) - Min(n, Len(list)) + 1, Len(list))

\* C37 as claimed: for every count >= 0, get_recent(count) returns exactly the
\* last min(count, len(Recent)) events of Recent; get_recent(0) returns an
\* empty list.
C37_AsClaimed ==
    /\ \A count \in 0..(Len(recent) + 1) : get_recent(count) = LastOf(recent, count)
    /\ last.op = "get_recent" => last.result = LastOf(recent, last.arg)

\* the same for every count above zero
C37_Positive ==
    /\ \A count \in 1..(Len(recent) + 1) : get_recent(count) = LastOf(recent, count)
    /\ (last.op = "get_recent" /\ last.arg > 0) => last.result = LastOf(recent, last.arg)


\* the queue never holds more than maxsize items
C38_Bounded == Len(_q) <= maxsize

\* the step is handle's get_nowait of line 72 taking an item off the queue
HandleDiscards == UiAt("get") /\ "ui" \in DOMAIN frames' /\ frames'.ui.pc = "put"

\* the step is the return of handle for the n-th item offered
HandleReturns ==
    /\ last'.op = "handle"
    /\ "ui" \notin DOMAIN frames'
    /\ \/ UiAt("get")
       \/ UiAt("put")
       \/ sent' # sent

\* handle takes the oldest item off the queue, and only off a full queue
C38_DiscardsOldestOfFull ==
    HandleDiscards => (_q' = Tail(_q) /\ Len(_q) = maxsize)

\* when handle returns its event is the newest item of the queue
C38_Enqueued ==
    HandleReturns => (_q' # <<>> /\ _q'[Len(_q')].n = last'.id)

\* C38 as claimed: handle never blocks, and under every interleaving with the
\* worker and the messenger's _emit_show the queue never holds more than 200
\* items, a queued item is discarded only when the queue is full at the moment
\* the new event is inserted, exactly the oldest one is discarded then, and the
\* new event is always enqueued.
C38_AsClaimed ==
    /\ []C38_Bounded
    /\ [][C38_DiscardsOldestOfFull /\ C38_Enqueued]_vars

\* the parts of C38 one by one
C38_OnlyWhenFull == [][HandleDiscards => Len(_q) = maxsize]_vars

C38_AlwaysEnqueued == [][C38_Enqueued]_vars

C38_Oldest == [][HandleDiscards => _q' = Tail(_q)]_vars


\* the items the worker took from the queue with the stop flag already set
TakenAfterStop == {i \in 1..Len(handled) : handled[i].stopped}

\* after stop() the worker takes at most one more item: the one its get was
\* waiting for when the flag was set
C39_OneMore == Cardinality(TakenAfterStop) <= 1

\* the worker thread has ended
WorkerEnded == WorkerAt("done")

\* the worker ends only on seeing the flag set at line 79; once it has ended it
\* takes nothing, whatever is queued
C39_EndsOnFlag ==
    /\ (~WorkerEnded /\ WorkerEnded') => (_stop_event /\ WorkerAt("test"))
    /\ WorkerEnded => (WorkerEnded' /\ handled' = handled)
    /\ (WorkerAt("test") /\ _stop_event) => (handled' = handled /\ ~WorkerAt("get")')

\* C39: after stop() the worker thread eventually terminates, given that the
\* call it makes for the item in progress returns: it finishes the item it had
\* dequeued, takes at most one more, starts nothing once it has seen the stop
\* flag, and leaves what is still queued unprocessed.
C39_Terminates ==
    /\ []C39_OneMore
    /\ [][C39_EndsOnFlag]_vars
    /\ (_stop_event ~> WorkerEnded)

\* stop() was called while the worker waited in get: the worker took one more
\* item, ended, and items are still queued
C39_Witness ==
    /\ _stop_event
    /\ WorkerEnded
    /\ TakenAfterStop # {}
    /\ _q # <<>>

====
